---- MODULE Spec2Model ----
(***************************************************************************)
(* legate.core runtime (legate/core/runtime.py): the field allocator with  *)
(* consensus reclamation (FieldManager, FieldMatch) on control-replicated  *)
(* shards, and the attachment registry (Attachment, AttachmentManager).    *)
(***************************************************************************)
EXTENDS Integers, Sequences, FiniteSets, TLC

\* ------------------------------------------------------------------ bounds
\* allocate_field calls each shard of a two-shard run may issue
MaxAllocs == 3
\* allocate_field calls the shard of a single-shard run may issue
MaxSoloAllocs == 5
\* capacity of a field space (FieldSpace.has_space turns false at this size)
MaxFields == 2
\* attach_array and remove_attachment calls of a run
MaxAttach == 2
MaxRemoves == 2

\* --------------------------------------------------------- program constants
max_field_reuse_size == 256
max_field_reuse_frequency == 32

\* The shards of the control-replicated program and the (shape, dtype) keys of
\* the field managers.  Both pools use one dtype, hence one field space.
Shards == {1, 2}
Pools == {1, 2}
\* volume * dtype.size of the two pools' shapes, in bytes
PoolBytes == <<4096, 8192>>
\* base addresses (array.ctypes.data) of the buffers a run attaches
Ptrs == {0, 4095, 4096}

VARIABLES
    nshards,         \* number of shards of this run (set at start-up)
    field_managers,  \* [shard][pool] -> FieldManager
    field_space,     \* [shard] -> number of fields of the dtype's FieldSpace
    next_tree,       \* [shard] -> tree id the next created region gets
    held,            \* [shard] -> fields owned by a live Field object
    waiting,         \* [shard] -> <<>> or <<[pool, match]>>: blocked in future.wait()
    calls,           \* [shard] -> pools of the allocate_field calls issued so far
    submitted,       \* [pool][shard] -> input buffers handed to the collective
    outputs,         \* [pool] -> output of every completed consensus match
    allocLog,        \* history: [shard] -> what each allocate_field call returned
    resolvedLog,     \* history: [shard][pool] -> the matches resolved, in order
    lastResolved,    \* history: [shard] -> the resolutions of its latest step
    attachments,     \* [shard] -> AttachmentManager._attachments: key -> Attachment
    bindings,        \* [shard] -> <<field, key>>: buffers bound by attach_numpy_array
    attachLog,       \* history: [shard] -> outcome of every attach_array call
    removeLog,       \* history: [shard] -> outcome of every remove_attachment call
    pc,              \* where Runtime.destroy of the followed shard stands
    context_list,    \* Runtime._context_list: the registered libraries, in order
    contextLog,      \* history: the contexts destroyed so far, in order
    deferred_detachments,   \* AttachmentManager._deferred_detachments
    pending_detachments,    \* AttachmentManager._pending_detachments: <<future, key>>
    registered_detachments, \* AttachmentManager._registered_detachments: keys in use
    next_detachment_key,    \* AttachmentManager._next_detachment_key
    next_future,     \* number of detach operations dispatched so far
    ready,           \* the detach futures that are ready
    released,        \* Runtime.field_managers is None
    detachLog,       \* history: outcome of every detach and detachment-key call
    num_pieces,        \* PartitionManager._num_pieces (tunable NUM_PIECES)
    min_shard_volume,  \* PartitionManager._min_shard_volume (tunable)
    launch_spaces,     \* PartitionManager._launch_spaces: shape -> launch shape
    lastCall,          \* history: the latest planner or constructor call, its result
    self_piece_factors,  \* PartitionManager._piece_factors
    constructed,       \* PartitionManager.__init__ returned (it did not raise)
    index_partitions,  \* region.index_space.children: the index partitions made
    partitionLog       \* history: every find_or_create_partition call, its result

poolVars == <<field_managers, field_space, next_tree, held, waiting, calls,
              submitted, outputs, allocLog, resolvedLog, lastResolved>>

attVars == <<attachments, bindings, attachLog, removeLog>>

downVars == <<pc, context_list, contextLog, deferred_detachments,
              pending_detachments, registered_detachments, next_detachment_key,
              next_future, ready, released, detachLog>>

planVars == <<num_pieces, min_shard_volume, launch_spaces, lastCall>>

partVars == <<self_piece_factors, constructed, index_partitions, partitionLog>>

vars == <<nshards, poolVars, attVars, downVars, planVars, partVars>>

Active == 1..nshards

\* ----------------------------------------------------------------- helpers
NoField == <<>>

Range(sq) == {sq[i] : i \in DOMAIN sq}

Min(S) == CHOOSE x \in S : \A y \in S : x <= y

Max(S) == CHOOSE x \in S : \A y \in S : x >= y

RECURSIVE Reverse(_)
Reverse(sq) == IF sq = <<>> THEN <<>> ELSE Append(Reverse(Tail(sq)), Head(sq))

Perms(S) ==
    {sq \in [1..Cardinality(S) -> S] : \A i, j \in DOMAIN sq : sq[i] = sq[j] => i = j}

Count(sq, x) == Cardinality({i \in DOMAIN sq : sq[i] = x})

\* occurrences of field f in the payloads of a queue of matches
RECURSIVE PayloadCount(_, _)
PayloadCount(queue, f) ==
    IF queue = <<>>
    THEN 0
    ELSE Count(Head(queue).fields, f) + PayloadCount(Tail(queue), f)

\* ------------------------------------------------------------ FieldManager
\* mutant: the base frequency over the ratio, rounded down
MatchFrequencyFloor(size) ==
    IF size > max_field_reuse_size
    THEN LET ratio == (size + max_field_reuse_size - 1) \div max_field_reuse_size
         IN  max_field_reuse_frequency \div ratio
    ELSE max_field_reuse_frequency

\* lines 195-209
MatchFrequency(size) ==
    IF size > max_field_reuse_size
    THEN LET ratio == (size + max_field_reuse_size - 1) \div max_field_reuse_size
         IN  (max_field_reuse_frequency + ratio - 1) \div ratio
    ELSE max_field_reuse_frequency

match_frequency(p) == MatchFrequency(PoolBytes[p])

NewFieldManager ==
    [match_counter |-> 0, free_fields |-> <<>>, freed_fields |-> <<>>,
     matches |-> <<>>, top_regions |-> <<>>]

\* mutant: the ordered flag is ignored, every free goes to the free queue
free_field_always_ordered(fm, f, ordered) ==
    [fm EXCEPT !.free_fields = Append(@, f)]

free_field(fm, f, ordered) ==
    IF ordered
    THEN [fm EXCEPT !.free_fields = Append(@, f)]
    ELSE [fm EXCEPT !.freed_fields = Append(@, f)]

\* -------------------------------------------------------------- FieldMatch
\* first idx of the output buffer holding (tree_id, field_id) of f, 0 if none
FirstIndex(out, f) ==
    IF \E idx \in DOMAIN out : out[idx] = f
    THEN Min({idx \in DOMAIN out : out[idx] = f})
    ELSE 0

\* mutant: a submitted field that is not in the output is dropped
RECURSIVE ScanFieldsDropping(_, _, _, _)
ScanFieldsDropping(fm, fields, out, ordered) ==
    IF fields = <<>>
    THEN [fm |-> fm, ordered |-> ordered, raised |-> FALSE]
    ELSE LET idx == FirstIndex(out, Head(fields))
         IN  ScanFieldsDropping(fm, Tail(fields), out,
                 IF idx = 0 THEN ordered
                 ELSE [ordered EXCEPT ![idx] = Head(fields)])

\* lines 138-151
RECURSIVE ScanFields(_, _, _, _)
ScanFields(fm, fields, out, ordered) ==
    IF fields = <<>>
    THEN [fm |-> fm, ordered |-> ordered, raised |-> FALSE]
    ELSE LET f == Head(fields)
             idx == FirstIndex(out, f)
         IN  IF idx = 0
             THEN ScanFields(free_field(fm, f, FALSE), Tail(fields), out, ordered)
             ELSE IF ordered[idx] # NoField
                  THEN [fm |-> fm, ordered |-> ordered, raised |-> TRUE]
                  ELSE ScanFields(fm, Tail(fields), out,
                                  [ordered EXCEPT ![idx] = f])

\* lines 154-155
RECURSIVE PushOrdered(_, _)
PushOrdered(fm, ordered) ==
    IF ordered = <<>>
    THEN [fm |-> fm, raised |-> FALSE]
    ELSE IF Head(ordered) = NoField
         THEN [fm |-> fm, raised |-> TRUE]
         ELSE PushOrdered(free_field(fm, Head(ordered), TRUE), Tail(ordered))

\* mutant: with no agreed field the submitted fields go to the free queue
RECURSIVE PushPendingOrdered(_, _)
PushPendingOrdered(fm, fields) ==
    IF fields = <<>>
    THEN fm
    ELSE PushPendingOrdered([fm EXCEPT !.free_fields = Append(@, Head(fields))],
                            Tail(fields))

\* lines 159-160
RECURSIVE PushPending(_, _)
PushPending(fm, fields) ==
    IF fields = <<>>
    THEN fm
    ELSE PushPending(free_field(fm, Head(fields), FALSE), Tail(fields))

\* [None] * num_fields
RECURSIVE Blank(_)
Blank(n) == IF n = 0 THEN <<>> ELSE Append(Blank(n - 1), NoField)

\* mutant: the agreed fields are queued in the order of the local payload
update_in_local_order(fm, match, out) ==
    LET agreed == SelectSeq(match.fields, LAMBDA f : FirstIndex(out, f) # 0)
        others == SelectSeq(match.fields, LAMBDA f : FirstIndex(out, f) = 0)
    IN  [fm |-> [fm EXCEPT !.free_fields = @ \o agreed,
                           !.freed_fields = @ \o others],
         raised |-> FALSE]

\* lines 121-160; out is the decoded output buffer: num_fields = Len(out)
update_free_fields(fm, match, out) ==
    IF Len(match.fields) = 0
    THEN [fm |-> fm, raised |-> FALSE]
    ELSE IF Len(out) > Len(match.fields)
    THEN [fm |-> fm, raised |-> TRUE]
    ELSE IF Len(out) > 0
    THEN LET scan == ScanFields(fm, match.fields, out, Blank(Len(out)))
         IN  IF scan.raised
             THEN [fm |-> scan.fm, raised |-> TRUE]
             ELSE PushOrdered(scan.fm, scan.ordered)
    ELSE [fm |-> PushPending(fm, match.fields), raised |-> FALSE]

\* ------------------------------------------- FieldManager.allocate_field
\* lines 238-248: the match takes the pending list and is queued
Dispatch(fm, future) ==
    [fm EXCEPT !.matches = Append(@, [fields |-> fm.freed_fields, future |-> future]),
               !.freed_fields = <<>>,
               !.match_counter = 0]

\* mutant: no match is dispatched when the pending list is empty
CadenceIfPending(fm, frequency, future) ==
    IF fm.match_counter + 1 = frequency /\ fm.freed_fields # <<>>
    THEN Dispatch(fm, future)
    ELSE [fm EXCEPT !.match_counter = (@ + 1) % frequency]

\* lines 225-248
Cadence(fm, frequency, future) ==
    IF fm.match_counter + 1 = frequency
    THEN Dispatch(fm, future)
    ELSE [fm EXCEPT !.match_counter = @ + 1]

\* mutant: the head of the free queue is returned but stays queued
PopFreeKeep(fm) ==
    [status |-> "ret", fm |-> fm, field |-> Head(fm.free_fields)]

\* lines 251, 259: free_fields.popleft()
PopFree(fm) ==
    [status |-> "ret", fm |-> [fm EXCEPT !.free_fields = Tail(@)],
     field |-> Head(fm.free_fields)]

\* lines 254-259; outs are the outputs of the pool's completed matches
RECURSIVE ResolveMatches(_, _, _)
RECURSIVE ResolveOne(_, _, _, _)

\* mutant: the newest match is taken (pop instead of popleft)
ResolveNewestFirst(fm, outs, log) ==
    IF Len(fm.matches) = 0
    THEN [status |-> "fresh", fm |-> fm, log |-> log]
    ELSE LET match == fm.matches[Len(fm.matches)]
             fm1 == [fm EXCEPT !.matches = SubSeq(@, 1, Len(@) - 1)]
         IN  IF Len(match.fields) > 0 /\ match.future > Len(outs)
             THEN [status |-> "wait", fm |-> fm1, match |-> match, log |-> log]
             ELSE ResolveOne(fm1, match, outs, log)

ResolveMatches(fm, outs, log) ==
    IF Len(fm.matches) = 0
    THEN [status |-> "fresh", fm |-> fm, log |-> log]
    ELSE LET match == Head(fm.matches)
             fm1 == [fm EXCEPT !.matches = Tail(@)]
         IN  IF Len(match.fields) > 0 /\ match.future > Len(outs)
             THEN [status |-> "wait", fm |-> fm1, match |-> match, log |-> log]
             ELSE ResolveOne(fm1, match, outs, log)

ResolveOne(fm, match, outs, log) ==
    LET out == IF Len(match.fields) = 0 THEN <<>> ELSE outs[match.future]
        r == update_free_fields(fm, match, out)
        log1 == Append(log, [future |-> match.future, fields |-> match.fields,
                             output |-> out,
                             free_before |-> fm.free_fields,
                             pending_before |-> fm.freed_fields,
                             free_after |-> r.fm.free_fields,
                             pending_after |-> r.fm.freed_fields])
    IN  IF r.raised
        THEN [status |-> "raised", fm |-> r.fm, log |-> log1]
        ELSE IF Len(r.fm.free_fields) > 0
        THEN PopFree(r.fm) @@ [log |-> log1]
        ELSE ResolveMatches(r.fm, outs, log1)

\* lines 249-259
AfterCadence(fm, outs) ==
    IF Len(fm.free_fields) > 0
    THEN PopFree(fm) @@ [log |-> <<>>]
    ELSE ResolveMatches(fm, outs, <<>>)

\* lines 295-299: the fields of a used field space but the first, for a new
\* region
RECURSIVE OtherFields(_, _, _)
OtherFields(region, fid, fs) ==
    IF fid > fs
    THEN <<>>
    ELSE <<<<region, fid>>>> \o OtherFields(region, fid + 1, fs)

\* mutant: a new region is made although a region has field slots left
FreshFieldNewRegion(fm, fs, tree) ==
    LET fm1 == [fm EXCEPT !.top_regions = Append(@, tree)]
    IN  IF fs > 0
        THEN [fm |-> [fm1 EXCEPT !.free_fields = @ \o OtherFields(tree, 2, fs)],
              fs |-> fs, tree |-> tree + 1, field |-> <<tree, 1>>]
        ELSE [fm |-> fm1, fs |-> fs + 1, tree |-> tree + 1,
              field |-> <<tree, 1>>]

\* lines 262-302; fs is the size of the field space, tree the next tree id
FreshField(fm, fs, tree) ==
    IF Len(fm.top_regions) > 0 /\ fs < MaxFields
    THEN [fm |-> fm, fs |-> fs + 1, tree |-> tree,
          field |-> <<fm.top_regions[1], fs + 1>>]
    ELSE LET fm1 == [fm EXCEPT !.top_regions = Append(@, tree)]
         IN  IF fs > 0
             THEN [fm |-> [fm1 EXCEPT !.free_fields =
                              @ \o OtherFields(tree, 2, fs)],
                   fs |-> fs, tree |-> tree + 1, field |-> <<tree, 1>>]
             ELSE [fm |-> fm1, fs |-> fs + 1, tree |-> tree + 1,
                   field |-> <<tree, 1>>]

\* ---------------------------------------------------- the collective
\* legion_context_consensus_match: the fields every shard put into its input
\* buffer of the pool's k-th match
Agreed(sub, p, k) ==
    {f \in Range(sub[p][1][k]) : \A t \in Active : f \in Range(sub[p][t][k])}

\* the future of the k-th match is ready once every shard has dispatched it
Completes(sub, p, k) == \A t \in Active : Len(sub[p][t]) >= k

\* ------------------------------------------------------------ operations
\* control replication: every shard issues the same allocate_field calls
Replicated(s, p) ==
    \A t \in Active :
        Len(calls[t]) > Len(calls[s]) => calls[t][Len(calls[s]) + 1] = p

PoolOf(s, f) == CHOOSE p \in Pools : f[1] \in Range(field_managers[s][p].top_regions)

RECURSIVE Brief(_)
Brief(log) ==
    IF log = <<>>
    THEN <<>>
    ELSE <<[future |-> Head(log).future, output |-> Head(log).output]>>
         \o Brief(Tail(log))

\* the end of an allocate_field call (or its parking in future.wait()):
\* r is the outcome of the match loop
Settle(s, p, r) ==
    LET fresh == FreshField(r.fm, field_space[s], next_tree[s])
        field == CASE r.status = "fresh" -> fresh.field
                   [] r.status = "ret" -> r.field
                   [] OTHER -> NoField
    IN  /\ field_managers' = [field_managers EXCEPT
               ![s][p] = IF r.status = "fresh" THEN fresh.fm ELSE r.fm]
        /\ field_space' = IF r.status = "fresh"
                          THEN [field_space EXCEPT ![s] = fresh.fs]
                          ELSE field_space
        /\ next_tree' = IF r.status = "fresh"
                        THEN [next_tree EXCEPT ![s] = fresh.tree]
                        ELSE next_tree
        /\ held' = IF field # NoField
                   THEN [held EXCEPT ![s] = @ \cup {field}]
                   ELSE held
        /\ waiting' = [waiting EXCEPT ![s] =
               IF r.status = "wait" THEN <<[pool |-> p, match |-> r.match]>>
               ELSE <<>>]
        /\ resolvedLog' = [resolvedLog EXCEPT ![s][p] = @ \o Brief(r.log)]
        /\ lastResolved' = [lastResolved EXCEPT ![s] = r.log]
        /\ allocLog' = IF r.status = "wait"
                       THEN allocLog
                       ELSE [allocLog EXCEPT ![s] = Append(@,
                                [pool |-> p, field |-> field,
                                 fresh |-> r.status = "fresh",
                                 dispatched |-> Len(submitted'[p][s]),
                                 resolved |-> Len(resolvedLog'[s][p])])]

\* Runtime.allocate_field -> FieldManager.allocate_field, run to its return or
\* to the wait for a match future that is not ready
Allocate(s, p) ==
    LET fm0 == field_managers[s][p]
        future == Len(submitted[p][s]) + 1
        fm1 == Cadence(fm0, match_frequency(p), future)
        fired == Len(fm1.matches) > Len(fm0.matches)
        sub1 == IF fired
                THEN [submitted EXCEPT ![p][s] = Append(@, fm0.freed_fields)]
                ELSE submitted
        done == fired /\ Completes(sub1, p, future)
    IN  /\ calls' = [calls EXCEPT ![s] = Append(@, p)]
        /\ submitted' = sub1
        /\ \E out \in (IF done THEN Perms(Agreed(sub1, p, future)) ELSE {<<>>}) :
              /\ outputs' = IF done
                            THEN [outputs EXCEPT ![p] = Append(@, out)]
                            ELSE outputs
              /\ Settle(s, p, AfterCadence(fm1, outputs'[p]))

allocate_field(s, p) ==
    /\ s \in Active
    /\ waiting[s] = <<>>
    /\ Len(calls[s]) < (IF nshards = 1 THEN MaxSoloAllocs ELSE MaxAllocs)
    /\ Replicated(s, p)
    /\ Allocate(s, p)
    /\ UNCHANGED <<partVars, planVars, nshards, attVars, downVars>>

\* the match future became ready: allocate_field goes on from line 128
ResumeAllocate(s) ==
    /\ s \in Active
    /\ waiting[s] # <<>>
    /\ UNCHANGED <<partVars, planVars, nshards, calls, submitted, outputs, attVars, downVars>>
    /\ LET w == waiting[s][1]
       IN  /\ w.match.future <= Len(outputs[w.pool])
           /\ Settle(s, w.pool,
                     ResolveOne(field_managers[s][w.pool], w.match,
                                outputs[w.pool], <<>>))

\* Field.__del__ -> Runtime.free_field -> FieldManager.free_field(region, fid);
\* the finalizer runs on the shard's one control thread, so not while that
\* thread is blocked in future.wait()
ConsumerFree(s, f) ==
    /\ s \in Active
    /\ waiting[s] = <<>>
    /\ f \in held[s]
    /\ \A key \in DOMAIN attachments[s] : attachments[s][key].field # f
    /\ field_managers' = [field_managers EXCEPT
           ![s][PoolOf(s, f)] = free_field(@, f, FALSE)]
    /\ held' = [held EXCEPT ![s] = @ \ {f}]
    /\ lastResolved' = [lastResolved EXCEPT ![s] = <<>>]
    /\ UNCHANGED <<partVars, planVars, nshards, field_space, next_tree, waiting, calls, submitted,
                   outputs, allocLog, resolvedLog, attVars, downVars>>

\* ------------------------------------------------------------ Attachment
NewAttachment(ptr, extent, field) ==
    [ptr |-> ptr, extent |-> extent, end |-> ptr + extent - 1, count |-> 1,
     field |-> field]

\* mutant: a range that starts on the last byte of another is let through
overlaps_off_by_one(self, other) ==
    ~(self.end <= other.ptr \/ other.end <= self.ptr)

\* lines 322-323
overlaps(self, other) == ~(self.end < other.ptr \/ other.end < self.ptr)

equals(self, other) == self.ptr = other.ptr /\ self.extent = other.extent

add_reference(self) == [self EXCEPT !.count = @ + 1]

\* line 335 increments the count
remove_reference(self) == [self EXCEPT !.count = @ + 1]

collectible(self) == self.count = 0

\* ----------------------------------------------------- AttachmentManager
\* attachment_key(array): (array.ctypes.data, array.nbytes); an array of pool
\* p's shape and dtype has nbytes = PoolBytes[p]
attachment_key(ptr, p) == <<ptr, PoolBytes[p]>>

Keys == {attachment_key(ptr, p) : ptr \in Ptrs, p \in Pools}

Put(dict, key, value) ==
    [k \in DOMAIN dict \cup {key} |-> IF k = key THEN value ELSE dict[k]]

Del(dict, key) == [k \in DOMAIN dict \ {key} |-> dict[k]]

\* lines 383-398: the array is new to the registry.  The field is allocated
\* and the buffer bound before the scan for aliases.
AttachNew(s, ptr, p) ==
    /\ Len(calls[s]) < MaxSoloAllocs
    /\ Allocate(s, p)
    /\ LET key == attachment_key(ptr, p)
           field == allocLog'[s][Len(allocLog'[s])].field
           attachment == NewAttachment(key[1], key[2], field)
           aliased == \E k \in DOMAIN attachments[s] :
                          overlaps(attachments[s][k], attachment)
       IN  IF field = NoField
           THEN /\ UNCHANGED <<attachments, bindings>>
                /\ attachLog' = [attachLog EXCEPT ![s] = Append(@,
                       [key |-> key, field |-> NoField, raised |-> TRUE])]
           ELSE /\ bindings' = [bindings EXCEPT ![s] = @ \cup {<<field, key>>}]
                /\ attachments' = IF aliased
                                  THEN attachments
                                  ELSE [attachments EXCEPT
                                           ![s] = Put(@, key, attachment)]
                /\ attachLog' = [attachLog EXCEPT ![s] = Append(@,
                       [key |-> key,
                        field |-> IF aliased THEN NoField ELSE field,
                        raised |-> aliased])]

\* lines 399-406: a view over the registered attachment's region and field
AttachAgain(s, ptr, p) ==
    LET key == attachment_key(ptr, p)
    IN  /\ attachments' = [attachments EXCEPT ![s][key] = add_reference(@)]
        /\ attachLog' = [attachLog EXCEPT ![s] = Append(@,
               [key |-> key, field |-> attachments[s][key].field,
                raised |-> FALSE])]
        /\ UNCHANGED <<poolVars, bindings>>

attach_array(s, ptr, p) ==
    /\ s \in Active
    /\ waiting[s] = <<>>
    /\ Len(attachLog[s]) < MaxAttach
    /\ IF attachment_key(ptr, p) \notin DOMAIN attachments[s]
       THEN AttachNew(s, ptr, p)
       ELSE AttachAgain(s, ptr, p)
    /\ UNCHANGED <<partVars, planVars, nshards, removeLog, downVars>>

remove_attachment(s, key) ==
    /\ s \in Active
    /\ waiting[s] = <<>>
    /\ Len(removeLog[s]) < MaxRemoves
    /\ IF key \notin DOMAIN attachments[s] \/ attachments[s][key].count <= 0
       THEN /\ removeLog' = [removeLog EXCEPT ![s] = Append(@,
                   [key |-> key, raised |-> TRUE])]
            /\ UNCHANGED attachments
       ELSE LET attachment == remove_reference(attachments[s][key])
            IN  /\ attachments' = [attachments EXCEPT ![s] =
                       IF collectible(attachment)
                       THEN Del(@, key)
                       ELSE Put(@, key, attachment)]
                /\ removeLog' = [removeLog EXCEPT ![s] = Append(@,
                       [key |-> key, raised |-> FALSE])]
    /\ UNCHANGED <<partVars, planVars, nshards, poolVars, bindings, attachLog, downVars>>

\* -------------------------------------------------------- specification
InitPools ==
    /\ field_managers = [s \in Shards |-> [p \in Pools |-> NewFieldManager]]
    /\ field_space = [s \in Shards |-> 0]
    /\ next_tree = [s \in Shards |-> 1]
    /\ held = [s \in Shards |-> {}]
    /\ waiting = [s \in Shards |-> <<>>]
    /\ calls = [s \in Shards |-> <<>>]
    /\ submitted = [p \in Pools |-> [s \in Shards |-> <<>>]]
    /\ outputs = [p \in Pools |-> <<>>]
    /\ allocLog = [s \in Shards |-> <<>>]
    /\ resolvedLog = [s \in Shards |-> [p \in Pools |-> <<>>]]
    /\ lastResolved = [s \in Shards |-> <<>>]

InitAttachments ==
    /\ attachments = [s \in Shards |-> <<>>]
    /\ bindings = [s \in Shards |-> {}]
    /\ attachLog = [s \in Shards |-> <<>>]
    /\ removeLog = [s \in Shards |-> <<>>]

\* Runtime.__init__ registers the core library (library 1)
InitTeardown ==
    /\ pc = "run"
    /\ context_list = <<1>>
    /\ contextLog = <<>>
    /\ deferred_detachments = <<>>
    /\ pending_detachments = {}
    /\ registered_detachments = {}
    /\ next_detachment_key = 0
    /\ next_future = 0
    /\ ready = {}
    /\ released = FALSE
    /\ detachLog = <<>>

\* lines 463-497, with the tunables of a run that plans no launches
InitPlanner ==
    /\ num_pieces = 1
    /\ min_shard_volume = 1
    /\ launch_spaces = <<>>
    /\ lastCall = <<>>
    /\ self_piece_factors = <<>>
    /\ constructed = TRUE
    /\ index_partitions = <<>>
    /\ partitionLog = <<>>

Init ==
    /\ nshards \in {1, 2}
    /\ InitPools
    /\ InitAttachments
    /\ InitTeardown
    /\ InitPlanner

Next ==
    \/ \E s \in Shards, p \in Pools : allocate_field(s, p)
    \/ \E s \in Shards : ResumeAllocate(s)
    \/ \E s \in Shards : \E f \in held[s] : ConsumerFree(s, f)

Spec == Init /\ [][Next]_vars

\* A single-shard run that attaches external buffers
InitAttach ==
    /\ nshards = 1
    /\ InitPools
    /\ InitAttachments
    /\ InitTeardown
    /\ InitPlanner

NextAttach ==
    \/ \E s \in Shards, ptr \in Ptrs, p \in Pools : attach_array(s, ptr, p)
    \/ \E s \in Shards, key \in Keys : remove_attachment(s, key)
    \/ \E s \in Shards : \E f \in held[s] : ConsumerFree(s, f)

SpecAttach == InitAttach /\ [][NextAttach]_vars

\* number of entries of field f in pool p of shard s: free queue, pending
\* list and the payloads of the matches in flight
Entries(s, p, f) ==
    Count(field_managers[s][p].free_fields, f)
    + Count(field_managers[s][p].freed_fields, f)
    + PayloadCount(field_managers[s][p].matches, f)

\* Runtime.free_field(region, field_id, dtype, shape) called again for a field
\* of pool p that its owner has freed and that was not allocated since.  A
\* run makes one such call at a time: no other field is entered twice.
RuntimeFree(s, p, f) ==
    /\ s \in Active
    /\ waiting[s] = <<>>
    /\ f \notin held[s]
    /\ Entries(s, p, f) = 1
    /\ \A q \in Pools :
          \A i \in DOMAIN allocLog[s] : Entries(s, q, allocLog[s][i].field) <= 1
    /\ field_managers' = [field_managers EXCEPT ![s][p] = free_field(@, f, FALSE)]
    /\ lastResolved' = [lastResolved EXCEPT ![s] = <<>>]
    /\ UNCHANGED <<partVars, planVars, nshards, field_space, next_tree, held, waiting, calls,
                   submitted, outputs, allocLog, resolvedLog, attVars, downVars>>

InitFree ==
    /\ nshards = 1
    /\ InitPools
    /\ InitAttachments
    /\ InitTeardown
    /\ InitPlanner

NextFree ==
    \/ \E s \in Shards, p \in Pools : allocate_field(s, p)
    \/ \E s \in Shards : \E f \in held[s] : ConsumerFree(s, f)
    \/ \E s \in Shards, p \in Pools :
          \E f \in {allocLog[s][i].field : i \in DOMAIN allocLog[s]} :
             RuntimeFree(s, p, f)

SpecFree == InitFree /\ [][NextFree]_vars

\* ------------------------------------------------------------- teardown
\* The runtime of one shard is followed through detach requests and
\* Runtime.destroy.
Home == 1

\* the libraries a program may register; library 1 is the core library
Libs == {1, 2, 3}

\* detach_array, register_detachment and remove_detachment calls of a run
MaxDetach == 3

\* lines 215-222: FieldManager.destroy pops and destroys every top-level region
destroy(fm) ==
    [fm EXCEPT !.top_regions = <<>>, !.free_fields = <<>>, !.freed_fields = <<>>]

\* lines 832-845, for a library that is not registered yet
register_library(lib) ==
    /\ pc = "run"
    /\ lib \notin Range(context_list)
    /\ context_list' = Append(context_list, lib)
    /\ UNCHANGED <<partVars, planVars, nshards, poolVars, attVars, pc, contextLog,
                   deferred_detachments, pending_detachments,
                   registered_detachments, next_detachment_key, next_future,
                   ready, released, detachLog>>

\* lines 409-416 on a registry value
RemoveFrom(att, key) ==
    IF key \notin DOMAIN att \/ att[key].count <= 0
    THEN [att |-> att, raised |-> TRUE]
    ELSE LET attachment == remove_reference(att[key])
         IN  [att |-> IF collectible(attachment)
                      THEN Del(att, key)
                      ELSE Put(att, key, attachment),
              raised |-> FALSE]

\* lines 422-434: one detach that is not deferred.  d is the state of the
\* registry, the pending set and the future counter; imm are the futures that
\* are ready as soon as they are dispatched.
DetachNow(d, key, imm) ==
    LET future == d.next + 1
        r == RemoveFrom(d.att, key)
    IN  IF r.raised
        THEN [d EXCEPT !.next = future, !.raised = TRUE]
        ELSE [d EXCEPT !.next = future,
                       !.att = r.att,
                       !.pending = IF future \in imm
                                   THEN @
                                   ELSE @ \cup {<<future, key>>}]

\* lines 447-451: the loop over the detachments taken from the queue
RECURSIVE PerformAll(_, _, _)
PerformAll(d, detachments, imm) ==
    IF detachments = <<>> \/ d.raised
    THEN d
    ELSE PerformAll(DetachNow(d, Head(detachments), imm), Tail(detachments), imm)

Detaching ==
    [att |-> attachments[Home], pending |-> pending_detachments,
     next |-> next_future, raised |-> FALSE]

\* the places where finalizers run: the program itself and the gc.collect()
\* calls of the teardown
GcSites == {"gc1", "gc2", "gc3", "gc4", "postamble"}

\* a finalizer asks for the detach of a buffer once for every store that was
\* attached to it
Finalizable(key) ==
    /\ key \in DOMAIN attachments[Home]
    /\ Cardinality({i \in DOMAIN detachLog : detachLog[i].key = key})
         < Cardinality({i \in DOMAIN attachLog[Home] :
                           /\ attachLog[Home][i].key = key
                           /\ ~attachLog[Home][i].raised})

\* lines 418-422: detach_array(array, field, detach, defer=True)
DeferDetach(key) ==
    /\ pc \in {"run"} \cup GcSites
    /\ Len(detachLog) < MaxDetach
    /\ pc \in GcSites => Finalizable(key)
    /\ deferred_detachments' = Append(deferred_detachments, key)
    /\ detachLog' = Append(detachLog,
           [op |-> "defer", key |-> key, raised |-> FALSE,
            known |-> key \in DOMAIN attachments[Home]])
    /\ UNCHANGED <<partVars, planVars, nshards, poolVars, attVars, pc, context_list, contextLog,
                   pending_detachments, registered_detachments,
                   next_detachment_key, next_future, ready, released>>

\* lines 418-434: detach_array(array, field, detach, defer=False)
detach_array(key) ==
    /\ pc = "run"
    /\ Len(detachLog) < MaxDetach
    /\ \E imm \in SUBSET {next_future + 1} :
          LET d == DetachNow(Detaching, key, imm)
          IN  /\ attachments' = [attachments EXCEPT ![Home] = d.att]
              /\ pending_detachments' = d.pending
              /\ next_future' = d.next
              /\ ready' = ready \cup imm
              /\ detachLog' = Append(detachLog,
                     [op |-> "detach", key |-> key, raised |-> d.raised,
                      known |-> key \in DOMAIN attachments[Home]])
    /\ UNCHANGED <<partVars, planVars, nshards, poolVars, bindings, attachLog, removeLog, pc,
                   context_list, contextLog, deferred_detachments,
                   registered_detachments, next_detachment_key, released>>

\* lines 436-440
register_detachment ==
    /\ pc = "run"
    /\ Len(detachLog) < MaxDetach
    /\ registered_detachments' = registered_detachments \cup {next_detachment_key}
    /\ next_detachment_key' = next_detachment_key + 1
    /\ detachLog' = Append(detachLog,
           [op |-> "register", key |-> next_detachment_key, raised |-> FALSE,
            known |-> FALSE])
    /\ UNCHANGED <<partVars, planVars, nshards, poolVars, attVars, pc, context_list, contextLog,
                   deferred_detachments, pending_detachments, next_future,
                   ready, released>>

\* lines 442-445: the lookup raises KeyError for a key that is not registered
remove_detachment(detach_key) ==
    /\ pc = "run"
    /\ Len(detachLog) < MaxDetach
    /\ registered_detachments' = registered_detachments \ {detach_key}
    /\ detachLog' = Append(detachLog,
           [op |-> "unregister", key |-> detach_key,
            raised |-> detach_key \notin registered_detachments,
            known |-> detach_key \in registered_detachments])
    /\ UNCHANGED <<partVars, planVars, nshards, poolVars, attVars, pc, context_list, contextLog,
                   deferred_detachments, pending_detachments,
                   next_detachment_key, next_future, ready, released>>

\* a dispatched detach operation completes
FutureReady(future) ==
    /\ future \in 1..next_future
    /\ future \notin ready
    /\ ready' = ready \cup {future}
    /\ UNCHANGED <<partVars, planVars, nshards, poolVars, attVars, pc, context_list, contextLog,
                   deferred_detachments, pending_detachments,
                   registered_detachments, next_detachment_key, next_future,
                   released, detachLog>>

\* the state of the AttachmentManager that the two drain calls work on
Registry ==
    [att |-> attachments[Home], pending |-> pending_detachments,
     next |-> next_future, raised |-> FALSE,
     deferred |-> deferred_detachments]

\* mutant: the queue is replayed but not emptied
PerformKeepingQueue(d, imm) == PerformAll(d, d.deferred, imm)

\* lines 447-451: the queue is replaced by an empty list, then replayed
PerformDetachments(d, imm) ==
    PerformAll([d EXCEPT !.deferred = <<>>], d.deferred, imm)

\* lines 453-459: the pending futures that are ready are dropped
PruneDetachments(d, rdy) ==
    [d EXCEPT !.pending = {e \in @ : e[1] \notin rdy}]

\* the futures a replay of the queue may find ready at once
Immediate(d) == SUBSET ((d.next + 1)..(d.next + Len(d.deferred)))

\* lines 447-451, called by the program
perform_detachments ==
    /\ pc = "run"
    /\ Len(detachLog) < MaxDetach
    /\ \E imm \in Immediate(Registry) :
          LET d == PerformDetachments(Registry, imm)
          IN  /\ deferred_detachments' = d.deferred
              /\ attachments' = [attachments EXCEPT ![Home] = d.att]
              /\ pending_detachments' = d.pending
              /\ next_future' = d.next
              /\ ready' = ready \cup (imm \cap (1..d.next))
              /\ detachLog' = Append(detachLog,
                     [op |-> "perform", key |-> <<>>, raised |-> d.raised,
                      known |-> deferred_detachments # <<>>])
    /\ UNCHANGED <<partVars, planVars, nshards, poolVars, bindings,
                   attachLog, removeLog, pc, context_list, contextLog,
                   registered_detachments, next_detachment_key, released>>

\* lines 453-459, called by the program
prune_detachments ==
    /\ pc = "run"
    /\ Len(detachLog) < MaxDetach
    /\ pending_detachments' = PruneDetachments(Registry, ready).pending
    /\ detachLog' = Append(detachLog,
           [op |-> "prune", key |-> <<>>, raised |-> FALSE,
            known |-> \E e \in pending_detachments : e[1] \in ready])
    /\ UNCHANGED <<partVars, planVars, nshards, poolVars, attVars, pc,
                   context_list, contextLog, deferred_detachments,
                   registered_detachments, next_detachment_key, next_future,
                   ready, released>>

\* ---- Runtime.destroy, lines 852-872
\* a step of the teardown that only moves on
Goto(label) ==
    /\ pc' = label
    /\ UNCHANGED <<partVars, planVars, nshards, poolVars, attVars, context_list, contextLog,
                   deferred_detachments, pending_detachments,
                   registered_detachments, next_detachment_key, next_future,
                   ready, released, detachLog>>

\* lines 855-858: the contexts are destroyed from the last registered to the
\* first; line 860 then enters AttachmentManager.destroy
DestroyContext ==
    /\ pc = "contexts"
    /\ contextLog' = Append(contextLog,
                            context_list[Len(context_list) - Len(contextLog)])
    /\ pc' = IF Len(contextLog') = Len(context_list) THEN "gc1" ELSE "contexts"
    /\ UNCHANGED <<partVars, planVars, nshards, poolVars, attVars, context_list,
                   deferred_detachments, pending_detachments,
                   registered_detachments, next_detachment_key, next_future,
                   ready, released, detachLog>>

\* lines 354, 359, 362, 365: gc.collect() returns
GcCollect ==
    /\ pc \in {"gc1", "gc2", "gc3", "gc4"}
    /\ Goto(CASE pc = "gc1" -> "drain"
              [] pc = "gc2" -> "drain"
              [] pc = "gc3" -> "prune"
              [] pc = "gc4" -> "prune")

\* lines 355-358: while self._deferred_detachments: perform_detachments() and
\* _progress_unordered_operations()
Drain ==
    /\ pc = "drain"
    /\ IF deferred_detachments = <<>>
       THEN Goto("gc3")
       ELSE \E imm \in SUBSET ((next_future + 1)..
                               (next_future + Len(deferred_detachments))) :
               LET d == PerformAll(Detaching, deferred_detachments, imm)
               IN  /\ deferred_detachments' = <<>>
                   /\ attachments' = [attachments EXCEPT ![Home] = d.att]
                   /\ pending_detachments' = d.pending
                   /\ next_future' = d.next
                   /\ ready' = ready \cup (imm \cap (1..d.next))
                   /\ pc' = IF d.raised THEN "raised" ELSE "gc2"
                   /\ UNCHANGED <<partVars, planVars, nshards, poolVars, bindings, attachLog,
                                  removeLog, context_list, contextLog,
                                  registered_detachments, next_detachment_key,
                                  released, detachLog>>

\* lines 363-364 and 453-459: while self._pending_detachments:
\* prune_detachments(); line 368 once the loop is left
Prune ==
    /\ pc = "prune"
    /\ IF pending_detachments = {}
       THEN /\ pc' = "pools"
            /\ attachments' = [attachments EXCEPT ![Home] = <<>>]
            /\ UNCHANGED pending_detachments
       ELSE /\ pc' = "gc4"
            /\ pending_detachments' =
                   {e \in pending_detachments : e[1] \notin ready}
            /\ UNCHANGED attachments
    /\ UNCHANGED <<partVars, planVars, nshards, poolVars, bindings, attachLog, removeLog,
                   context_list, contextLog, deferred_detachments,
                   registered_detachments, next_detachment_key, next_future,
                   ready, released, detachLog>>

\* lines 862-865: self.field_managers = None (and field_spaces, index_spaces)
ReleasePools ==
    /\ pc = "pools"
    /\ released' = TRUE
    /\ pc' = "postamble"
    /\ UNCHANGED <<partVars, planVars, nshards, poolVars, attVars, context_list, contextLog,
                   deferred_detachments, pending_detachments,
                   registered_detachments, next_detachment_key, next_future,
                   ready, detachLog>>

\* lines 867-872: gc.collect(), legate_task_postamble, self.destroyed = True
Finish ==
    /\ pc = "postamble"
    /\ Goto("done")

Runtime_destroy ==
    \/ pc = "run" /\ Goto("contexts")
    \/ DestroyContext
    \/ GcCollect
    \/ Drain
    \/ Prune
    \/ ReleasePools
    \/ Finish

InitDestroy ==
    /\ nshards = 1
    /\ InitPools
    /\ InitAttachments
    /\ InitTeardown
    /\ InitPlanner

\* the buffers of a run that detaches: two disjoint arrays of pool 1's shape
DetachPtrs == {0, 4096}

DetachKeys == {attachment_key(ptr, 1) : ptr \in DetachPtrs}

NextDestroy ==
    \/ \E ptr \in DetachPtrs : pc = "run" /\ attach_array(Home, ptr, 1)
    \/ \E lib \in Libs : register_library(lib)
    \/ \E key \in DetachKeys : DeferDetach(key)
    \/ \E future \in 1..next_future : FutureReady(future)
    \/ Runtime_destroy

SpecDestroy == InitDestroy /\ [][NextDestroy]_vars

\* A run that attaches and detaches one buffer and handles detachment keys
NextDetach ==
    \/ attach_array(Home, 0, 1)
    \/ remove_attachment(Home, attachment_key(0, 1))
    \/ detach_array(attachment_key(0, 1))
    \/ DeferDetach(attachment_key(0, 1))
    \/ register_detachment
    \/ \E key \in 0..MaxDetach : remove_detachment(key)

SpecDetach == InitDestroy /\ [][NextDetach]_vars

\* A run that attaches one buffer, detaches it at once or deferred, and
\* drains: perform_detachments and prune_detachments at any time
NextDrain ==
    \/ attach_array(Home, 0, 1)
    \/ detach_array(attachment_key(0, 1))
    \/ DeferDetach(attachment_key(0, 1))
    \/ \E future \in 1..next_future : FutureReady(future)
    \/ perform_detachments
    \/ prune_detachments

SpecDrain == InitDestroy /\ [][NextDrain]_vars

\* -------------------------------------------------------- PartitionManager
\* the no-launch result (None) and a launch shape
NoLaunch == [launch |-> FALSE, shape |-> <<>>]

Launch(shape) == [launch |-> TRUE, shape |-> shape]

\* (a + b - 1) // b
CeilDiv(a, b) == (a + b - 1) \div b

\* lines 520-521: the dimensions of extent 1 are pruned
RECURSIVE TempDims(_, _)
TempDims(shape, dim) ==
    IF dim > Len(shape)
    THEN <<>>
    ELSE (IF shape[dim] = 1 THEN <<>> ELSE <<dim>>) \o TempDims(shape, dim + 1)

RECURSIVE Gather(_, _)
Gather(shape, dims) ==
    IF dims = <<>> THEN <<>> ELSE <<shape[Head(dims)]>> \o Gather(shape, Tail(dims))

RECURSIVE Volume(_)
Volume(shape) == IF shape = <<>> THEN 1 ELSE Head(shape) * Volume(Tail(shape))

\* int(math.floor(math.sqrt(a / b) + 1e-12)) for positive integers a and b:
\* the square root is within 1e-12 of an integer only when a = n * n * b
RECURSIVE RootBelow(_, _)
RootBelow(n, q) == IF (n + 1) * (n + 1) <= q THEN RootBelow(n + 1, q) ELSE n

FloorRoot(a, b) == RootBelow(0, a \div b)

\* int(math.ceil(math.sqrt(a / b) - 1e-12))
RECURSIVE RootAbove(_, _)
RootAbove(n, q) == IF n * n >= q THEN n ELSE RootAbove(n + 1, q)

CeilRoot(a, b) == RootAbove(0, CeilDiv(a, b))

\* lines 571-572: while max_pieces % n1 != 0: n1 -= 1
RECURSIVE DivisorBelow(_, _)
DivisorBelow(max_pieces, n1) ==
    IF max_pieces % n1 = 0 THEN n1 ELSE DivisorBelow(max_pieces, n1 - 1)

\* lines 574-575: while max_pieces % n2 != 0: n2 += 1
RECURSIVE DivisorAbove(_, _)
DivisorAbove(max_pieces, n2) ==
    IF max_pieces % n2 = 0 THEN n2 ELSE DivisorAbove(max_pieces, n2 + 1)

\* a choice of the factor pair with the longer long side
TwoDimsLongSide(temp_shape, volume, max_pieces) ==
    IF volume < max_pieces
    THEN temp_shape
    ELSE LET swap == temp_shape[1] > temp_shape[2]
             nx == IF swap THEN temp_shape[2] ELSE temp_shape[1]
             ny == IF swap THEN temp_shape[1] ELSE temp_shape[2]
             n1 == DivisorBelow(max_pieces,
                                Max({FloorRoot(max_pieces * nx, ny), 1}))
             n2 == DivisorAbove(max_pieces, CeilRoot(max_pieces * nx, ny))
             side1 == Max({nx \div n1, ny \div (max_pieces \div n1)})
             side2 == Max({nx \div n2, ny \div (max_pieces \div n2)})
             px == IF side1 >= side2 THEN n1 ELSE n2
             py == max_pieces \div px
         IN  IF swap
             THEN <<Min({py, temp_shape[1]}), Min({px, temp_shape[2]})>>
             ELSE <<Min({px, temp_shape[1]}), Min({py, temp_shape[2]})>>

\* lines 550-594: two dimensions are left
TwoDims(temp_shape, volume, max_pieces) ==
    IF volume < max_pieces
    THEN temp_shape
    ELSE LET swap == temp_shape[1] > temp_shape[2]
             nx == IF swap THEN temp_shape[2] ELSE temp_shape[1]
             ny == IF swap THEN temp_shape[1] ELSE temp_shape[2]
             n1 == DivisorBelow(max_pieces,
                                Max({FloorRoot(max_pieces * nx, ny), 1}))
             n2 == DivisorAbove(max_pieces, CeilRoot(max_pieces * nx, ny))
             side1 == Max({nx \div n1, ny \div (max_pieces \div n1)})
             side2 == Max({nx \div n2, ny \div (max_pieces \div n2)})
             px == IF side1 <= side2 THEN n1 ELSE n2
             py == max_pieces \div px
         IN  IF swap
             THEN <<Min({py, temp_shape[1]}), Min({px, temp_shape[2]})>>
             ELSE <<Min({px, temp_shape[1]}), Min({py, temp_shape[2]})>>

\* lines 476-496: the prime factors of the number of pieces, as the five
\* loops find them; rest > 1 raises ValueError (lines 492-496)
Primes == <<2, 3, 5, 7, 11>>

RECURSIVE Factorize(_, _)
Factorize(pieces, primes) ==
    IF primes = <<>>
    THEN [factors |-> <<>>, rest |-> pieces]
    ELSE IF pieces % Head(primes) = 0
         THEN LET r == Factorize(pieces \div Head(primes), primes)
              IN  [r EXCEPT !.factors = <<Head(primes)>> \o @]
         ELSE Factorize(pieces, Tail(primes))

\* mutant: the factors are kept in the order they were found
piece_factors_as_found(pieces) == Factorize(pieces, Primes).factors

\* line 497
piece_factors(pieces) == Reverse(Factorize(pieces, Primes).factors)

RECURSIVE Ones(_)
Ones(n) == IF n = 0 THEN <<>> ELSE Append(Ones(n - 1), 1)

\* lines 611-613: (s + r - 1) // r of every dimension
RECURSIVE Remaining(_, _)
Remaining(temp_shape, temp_result) ==
    IF temp_shape = <<>>
    THEN <<>>
    ELSE <<CeilDiv(Head(temp_shape), Head(temp_result))>>
         \o Remaining(Tail(temp_shape), Tail(temp_result))

\* list.index(max(list))
FirstMax(sq) == Min({i \in DOMAIN sq : sq[i] = Max(Range(sq))})

RECURSIVE SpreadAnyBig(_, _, _, _, _)
\* every factor to the dimension with the most left, the last one included
SpreadAnyBig(temp_shape, temp_result, factors, factor_prod, max_pieces) ==
    IF factors = <<>> \/ Head(factors) * factor_prod > max_pieces
    THEN temp_result
    ELSE LET big_dim == FirstMax(Remaining(temp_shape, temp_result))
         IN  SpreadAnyBig(temp_shape,
                          [temp_result EXCEPT ![big_dim] = @ * Head(factors)],
                          Tail(factors), factor_prod * Head(factors),
                          max_pieces)

\* lines 596-636: three or more dimensions are left
RECURSIVE Spread(_, _, _, _, _)
Spread(temp_shape, temp_result, factors, factor_prod, max_pieces) ==
    IF factors = <<>> \/ Head(factors) * factor_prod > max_pieces
    THEN temp_result
    ELSE LET factor == Head(factors)
             dims == Len(temp_shape)
             remaining == Remaining(temp_shape, temp_result)
             big_dim == FirstMax(remaining)
             other == FirstMax(SubSeq(remaining, 1, dims - 1))
             target == IF big_dim < dims
                       THEN big_dim
                       ELSE IF dims = 1 \/ remaining[big_dim] \div factor >= 32
                       THEN big_dim
                       ELSE IF remaining[other] \div factor > 0
                       THEN other
                       ELSE dims
         IN  Spread(temp_shape, [temp_result EXCEPT ![target] = @ * factor],
                    Tail(factors), factor_prod * factor, max_pieces)

RECURSIVE ProjectLeading(_, _, _, _)
\* the counts put on the leading dimensions, whatever their extent
ProjectLeading(shape, dim, temp_dims, temp_result) ==
    IF dim > Len(shape)
    THEN <<>>
    ELSE IF temp_result # <<>>
         THEN <<Head(temp_result)>>
              \o ProjectLeading(shape, dim + 1, temp_dims, Tail(temp_result))
         ELSE <<1>> \o ProjectLeading(shape, dim + 1, temp_dims, temp_result)

\* lines 637-644: back onto the original number of dimensions
RECURSIVE Project(_, _, _, _)
Project(shape, dim, temp_dims, temp_result) ==
    IF dim > Len(shape)
    THEN <<>>
    ELSE IF temp_dims # <<>> /\ Head(temp_dims) = dim
         THEN <<Head(temp_result)>>
              \o Project(shape, dim + 1, Tail(temp_dims), Tail(temp_result))
         ELSE <<1>> \o Project(shape, dim + 1, temp_dims, temp_result)

\* a shard count that rounds down
MaxPiecesFloor(volume, min_volume) == volume \div min_volume

\* lines 525-527: how many shards of the minimum volume the array can make
MaxPieces(volume, min_volume) == CeilDiv(volume, min_volume)

\* a one-dimensional result that is not trimmed to the extent
OneDimUntrimmed(temp_shape, max_pieces) == <<max_pieces>>

\* a one-dimensional result that takes the larger of extent and shard count
OneDimLarger(temp_shape, max_pieces) == <<Max({temp_shape[1], max_pieces})>>

\* lines 547-549: one dimension is left
OneDim(temp_shape, max_pieces) == <<Min({temp_shape[1], max_pieces})>>

\* lines 499-648 for a shape that is not in the cache: the result, whether it
\* is stored in _launch_spaces, and whether an assertion failed
ComputeLaunchShape(shape, pieces, min_volume) ==
    LET temp_dims == TempDims(shape, 1)
        temp_shape == Gather(shape, temp_dims)
        volume == Volume(temp_shape)
        dims == Len(temp_shape)
        max_pieces == MaxPieces(volume, min_volume)
        temp_result ==
            CASE dims = 1 -> OneDim(temp_shape, pieces)
              [] dims = 2 -> TwoDims(temp_shape, volume, pieces)
              [] OTHER -> Spread(temp_shape, Ones(dims), piece_factors(pieces),
                                 1, pieces)
    IN  IF pieces = 1 \/ \A dim \in DOMAIN shape : shape[dim] <= 1
        THEN [result |-> NoLaunch, stored |-> FALSE, raised |-> FALSE]
        ELSE IF \E dim \in DOMAIN shape : shape[dim] <= 0
        THEN [result |-> NoLaunch, stored |-> FALSE, raised |-> TRUE]
        ELSE IF max_pieces = 1
        THEN [result |-> NoLaunch, stored |-> TRUE, raised |-> FALSE]
        ELSE [result |-> Launch(Project(shape, 1, temp_dims, temp_result)),
              stored |-> TRUE, raised |-> FALSE]

RECURSIVE ComputeTileShapeFloor(_, _)
RECURSIVE ComputeTileShape(_, _)
\* mutant: the tile extents are rounded down
ComputeTileShapeFloor(shape, launch_space) ==
    IF shape = <<>>
    THEN <<>>
    ELSE <<Head(shape) \div Head(launch_space)>>
         \o ComputeTileShapeFloor(Tail(shape), Tail(launch_space))

\* lines 649-654: (x + y - 1) // y of every dimension
ComputeTileShape(shape, launch_space) ==
    IF shape = <<>>
    THEN <<>>
    ELSE <<(Head(shape) + Head(launch_space) - 1) \div Head(launch_space)>>
         \o ComputeTileShape(Tail(shape), Tail(launch_space))

\* lines 728-733: (shape // tile_shape).volume(), the floor division taken
\* dimension by dimension
RECURSIVE FloorDivs(_, _)
FloorDivs(shape, tile_shape) ==
    IF shape = <<>>
    THEN <<>>
    ELSE <<Head(shape) \div Head(tile_shape)>>
         \o FloorDivs(Tail(shape), Tail(tile_shape))

UseCompleteTiling(shape, tile_shape, pieces) ==
    LET num_tiles == Volume(FloorDivs(shape, tile_shape))
    IN  ~(num_tiles > 256 /\ num_tiles > 16 * pieces)

\* ---- the calls of a run that plans launches: it asks for launch shapes, or
\* for one tiling decision, or it makes one field manager
\* distinct shapes whose launch shape a run computes
MaxShapes == 1

\* values of the tunables NUM_PIECES and MIN_SHARD_VOLUME
PieceCounts == {1, 2, 3, 4, 6, 8, 12, 30, 32, 77}

\* values of NUM_PIECES with a prime factor above 11
UnsupportedCounts == {13, 26}

ShardVolumes == {1, 4}

\* array shapes of one to four dimensions
Shapes ==
    {<<a>> : a \in {0, 1, 3, 100, 1000}}
        \cup {<<a, b>> : a, b \in {0, 1, 3, 30, 100}}
        \cup {<<a, b, c>> : a, b, c \in {1, 3, 100}}
        \cup {<<a, 1, 3, c>> : a, c \in {3, 100}}
        \cup {<<3, 3, 3, 3>>}

\* (shape, tile shape) pairs of one and two dimensions
Tilings ==
    {<<<<a>>, <<t>>>> : a \in {16, 257, 513}, t \in {1, 2}}
        \cup {<<<<a, b>>, <<t, u>>>> : a, b \in {16, 33, 513}, t, u \in {1, 2}}

\* (shape, launch shape) pairs of one and two dimensions
TileRequests ==
    {<<<<a>>, <<l>>>> : a \in {1, 3, 100, 1000}, l \in {1, 2, 3, 8}}
        \cup {<<<<a, b>>, <<l, m>>>> : a, b \in {3, 100}, l, m \in {1, 2, 4}}

\* volume and dtype.size of the arrays a field manager is made for
Volumes == {1, 16, 64, 100, 1000, 10000}

DtypeSizes == {1, 4, 8}

Call(op, shape, tile_shape, size) ==
    [op |-> op, shape |-> shape, tile_shape |-> tile_shape, size |-> size,
     result |-> NoLaunch, answer |-> FALSE, frequency |-> 0, raised |-> FALSE,
     cached |-> FALSE, launch_space |-> <<>>, tile |-> <<>>]

\* lines 499-648.  After its first call a run goes on with the shapes that
\* reach the cache (to read it or to fill it).
compute_launch_shape(shape) ==
    LET hit == /\ num_pieces # 1
               /\ \E dim \in DOMAIN shape : shape[dim] > 1
               /\ shape \in DOMAIN launch_spaces
        fills == /\ num_pieces # 1
                 /\ \E dim \in DOMAIN shape : shape[dim] > 1
                 /\ \A dim \in DOMAIN shape : shape[dim] > 0
                 /\ shape \notin DOMAIN launch_spaces
    IN  /\ constructed
        /\ \A i \in DOMAIN lastCall :
              lastCall[i].op = "launch" /\ (hit \/ fills)
        /\ fills => Cardinality(DOMAIN launch_spaces) < MaxShapes
        /\ LET c == ComputeLaunchShape(shape, num_pieces, min_shard_volume)
               result == IF hit THEN launch_spaces[shape] ELSE c.result
           IN  /\ launch_spaces' = IF ~hit /\ c.stored
                                   THEN Put(launch_spaces, shape, c.result)
                                   ELSE launch_spaces
               /\ lastCall' = <<[Call("launch", shape, <<>>, 0) EXCEPT
                                    !.result = result,
                                    !.raised = ~hit /\ c.raised,
                                    !.cached = hit]>>
        /\ UNCHANGED <<partVars, nshards, poolVars, attVars, downVars, num_pieces,
                       min_shard_volume>>

\* lines 649-654
compute_tile_shape(shape, launch_space) ==
    /\ constructed
    /\ lastCall = <<>>
    /\ lastCall' = <<[Call("tile", shape, <<>>, 0) EXCEPT
                         !.launch_space = launch_space,
                         !.tile = ComputeTileShape(shape, launch_space)]>>
    /\ UNCHANGED <<partVars, nshards, poolVars, attVars, downVars, num_pieces,
                   min_shard_volume, launch_spaces>>

\* lines 728-733
use_complete_tiling(shape, tile_shape) ==
    /\ constructed
    /\ lastCall = <<>>
    /\ lastCall' = <<[Call("tiling", shape, tile_shape, 0) EXCEPT
                         !.answer = UseCompleteTiling(shape, tile_shape,
                                                      num_pieces)]>>
    /\ UNCHANGED <<partVars, nshards, poolVars, attVars, downVars, num_pieces,
                   min_shard_volume, launch_spaces>>

\* lines 180-213: FieldManager(runtime, shape, dtype) for an array of the
\* given volume and element size
FieldManager_init(volume, size) ==
    /\ constructed
    /\ lastCall = <<>>
    /\ lastCall' = <<[Call("manager", <<volume>>, <<>>, size) EXCEPT
                         !.frequency = MatchFrequency(volume * size)]>>
    /\ UNCHANGED <<partVars, nshards, poolVars, attVars, downVars, num_pieces,
                   min_shard_volume, launch_spaces>>

InitPlan ==
    /\ nshards = 1
    /\ InitPools
    /\ InitAttachments
    /\ InitTeardown
    /\ num_pieces \in PieceCounts \cup UnsupportedCounts
    /\ min_shard_volume \in ShardVolumes
    /\ launch_spaces = <<>>
    /\ lastCall = <<>>
    /\ constructed = (Factorize(num_pieces, Primes).rest <= 1)
    /\ self_piece_factors = IF Factorize(num_pieces, Primes).rest <= 1
                            THEN piece_factors(num_pieces)
                            ELSE <<>>
    /\ index_partitions = <<>>
    /\ partitionLog = <<>>

NextPlan ==
    \/ \E shape \in Shapes : compute_launch_shape(shape)
    \/ \E t \in Tilings : use_complete_tiling(t[1], t[2])
    \/ \E t \in TileRequests : compute_tile_shape(t[1], t[2])
    \/ \E volume \in Volumes, size \in DtypeSizes : FieldManager_init(volume, size)

SpecPlan == InitPlan /\ [][NextPlan]_vars

\* ---- find_or_create_partition, lines 656-726
\* calls of find_or_create_partition in a run
MaxPartitionCalls == 2

\* offset=None and transform=None
NoOffset == <<>>

NoTransform == <<>>

\* Transform of the Legion bindings: an integer matrix, the tuple of its rows
RECURSIVE Dot(_, _)
Dot(row, point) ==
    IF row = <<>> THEN 0 ELSE Head(row) * Head(point) + Dot(Tail(row), Tail(point))

\* Transform.apply(point)
RECURSIVE Apply(_, _)
Apply(trans, point) ==
    IF trans = <<>>
    THEN <<>>
    ELSE <<Dot(Head(trans), point)>> \o Apply(Tail(trans), point)

RECURSIVE Column(_, _)
Column(trans, n) ==
    IF trans = <<>> THEN <<>> ELSE <<Head(trans)[n]>> \o Column(Tail(trans), n)

RECURSIVE RowTimes(_, _, _)
RowTimes(row, inner, n) ==
    IF n > Len(Head(inner))
    THEN <<>>
    ELSE <<Dot(row, Column(inner, n))>> \o RowTimes(row, inner, n + 1)

\* inner.compose(outer): the matrix product outer * inner
RECURSIVE Compose(_, _)
Compose(inner, outer) ==
    IF outer = <<>>
    THEN <<>>
    ELSE <<RowTimes(Head(outer), inner, 1)>> \o Compose(inner, Tail(outer))

RECURSIVE UnitRow(_, _, _, _)
UnitRow(len, idx, tile, n) ==
    IF n > len
    THEN <<>>
    ELSE <<IF n = idx THEN tile ELSE 0>> \o UnitRow(len, idx, tile, n + 1)

\* lines 668-670: the identity with the tile extents on its diagonal
RECURSIVE TileTransform(_, _)
TileTransform(tile_shape, idx) ==
    IF idx > Len(tile_shape)
    THEN <<>>
    ELSE <<UnitRow(Len(tile_shape), idx, tile_shape[idx], 1)>>
         \o TileTransform(tile_shape, idx + 1)

RECURSIVE Zeros(_)
Zeros(n) == IF n = 0 THEN <<>> ELSE Append(Zeros(n - 1), 0)

RECURSIVE Plus(_, _)
Plus(a, b) ==
    IF a = <<>> THEN <<>> ELSE <<Head(a) + Head(b)>> \o Plus(Tail(a), Tail(b))

RECURSIVE MinusOne(_)
MinusOne(a) == IF a = <<>> THEN <<>> ELSE <<Head(a) - 1>> \o MinusOne(Tail(a))

\* lines 659-688: the transform, the extent and the colour bounds a request
\* stands for
PartitionKey(color_shape, tile_shape, offset, transform) ==
    LET lo0 == Zeros(Len(tile_shape))
        hi0 == MinusOne(tile_shape)
        lo1 == IF offset # NoOffset THEN Plus(lo0, offset) ELSE lo0
        hi1 == IF offset # NoOffset THEN Plus(hi0, offset) ELSE hi0
        tile_transform == TileTransform(tile_shape, 1)
    IN  [transform |-> IF transform # NoTransform
                       THEN Compose(tile_transform, transform)
                       ELSE tile_transform,
         extent |-> [lo |-> IF transform # NoTransform
                            THEN Apply(transform, lo1) ELSE lo1,
                     hi |-> IF transform # NoTransform
                            THEN Apply(transform, hi1) ELSE hi1],
         color_lo |-> Zeros(Len(color_shape)),
         color_hi |-> MinusOne(color_shape)]

\* mutant: the upper colour bound is compared with the colour shape itself
SamePartitionExclusive(part, key, color_shape) ==
    /\ part.functor = "PartitionByRestriction"
    /\ part.transform = key.transform
    /\ part.extent = key.extent
    /\ part.color_lo = key.color_lo
    /\ part.color_hi = color_shape

\* lines 689-699: the tests a child of the index space has to pass
SamePartition(part, key, color_shape) ==
    /\ part.functor = "PartitionByRestriction"
    /\ part.transform = key.transform
    /\ part.extent = key.extent
    /\ part.color_lo = key.color_lo
    /\ part.color_hi = key.color_hi

\* lines 656-726.  The result is the logical partition region.get_child gives
\* for an index partition, named by the position of the index partition
\* among the children of the index space.
find_or_create_partition(color_shape, tile_shape, offset, transform, complete) ==
    LET key == PartitionKey(color_shape, tile_shape, offset, transform)
        found == {i \in DOMAIN index_partitions :
                     SamePartition(index_partitions[i], key, color_shape)}
        result == IF found # {} THEN Min(found) ELSE Len(index_partitions) + 1
        partition ==
            [functor |-> "PartitionByRestriction",
             transform |-> key.transform, extent |-> key.extent,
             color_lo |-> key.color_lo, color_hi |-> key.color_hi,
             kind |-> IF complete THEN "DISJOINT_COMPLETE"
                      ELSE "DISJOINT_INCOMPLETE",
             color_shape |-> color_shape, tile_shape |-> tile_shape,
             tile_offset |-> offset]
    IN  /\ constructed
        /\ Len(partitionLog) < MaxPartitionCalls
        /\ index_partitions' = IF found # {}
                               THEN index_partitions
                               ELSE Append(index_partitions, partition)
        /\ partitionLog' = Append(partitionLog,
               [color_shape |-> color_shape, tile_shape |-> tile_shape,
                offset |-> offset, transform |-> transform,
                complete |-> complete, result |-> result,
                created |-> found = {}])
        /\ UNCHANGED <<nshards, poolVars, attVars, downVars, planVars,
                       self_piece_factors, constructed>>

\* an index partition of the same index space made with another functor
OtherPartition ==
    /\ Len(index_partitions) < MaxPartitionCalls
    /\ \A i \in DOMAIN index_partitions :
           index_partitions[i].functor = "PartitionByRestriction"
    /\ index_partitions' = Append(index_partitions,
           [functor |-> "PartitionByImage",
            transform |-> <<>>, extent |-> [lo |-> <<>>, hi |-> <<>>],
            color_lo |-> <<>>, color_hi |-> <<>>, kind |-> "COMPUTE",
            color_shape |-> <<>>, tile_shape |-> <<>>, tile_offset |-> NoOffset])
    /\ UNCHANGED <<nshards, poolVars, attVars, downVars, planVars,
                   self_piece_factors, constructed, partitionLog>>

\* the tiling requests of a run: one- and two-dimensional
PartitionRequests ==
    {<<c, t, o, x>> : c \in {<<2>>, <<4>>}, t \in {<<2>>, <<4>>},
                      o \in {NoOffset, <<0>>}, x \in {NoTransform, <<<<2>>>>}}
        \cup {<<<<2, 2>>, t, NoOffset, x>> :
                 t \in {<<2, 4>>, <<4, 2>>},
                 x \in {NoTransform, <<<<0, 1>>, <<1, 0>>>>}}

InitPartition ==
    /\ nshards = 1
    /\ InitPools
    /\ InitAttachments
    /\ InitTeardown
    /\ InitPlanner

NextPartition ==
    \/ \E r \in PartitionRequests, complete \in BOOLEAN :
           find_or_create_partition(r[1], r[2], r[3], r[4], complete)
    \/ OtherPartition

SpecPartition == InitPartition /\ [][NextPartition]_vars

\* ---- FieldMatch.update_free_fields on its own, lines 121-160: the payload
\* of a match and the output buffer the collective wrote
\* fields in the payload of a match
MaxPayload == 2

\* (tree id, field id) pairs
MatchFields == {<<1, 1>>, <<1, 2>>, <<2, 1>>, <<2, 2>>}

RECURSIVE SeqsUpTo(_, _)
SeqsUpTo(S, n) ==
    IF n = 0
    THEN {<<>>}
    ELSE LET shorter == SeqsUpTo(S, n - 1)
         IN  shorter \cup {Append(sq, x) : sq \in shorter, x \in S}

\* a payload lists a field once: the fields freed since the last match
Payloads ==
    {sq \in SeqsUpTo(MatchFields, MaxPayload) :
        \A i, j \in DOMAIN sq : i # j => sq[i] # sq[j]}

\* lines 121-160 for a new manager: what the call leaves in the two queues
FieldMatch_update_free_fields(fields, out) ==
    /\ lastCall = <<>>
    /\ Len(out) <= Len(fields)
    /\ LET r == update_free_fields(NewFieldManager,
                                   [fields |-> fields, future |-> 1], out)
       IN  lastCall' = <<[op |-> "match", fields |-> fields, output |-> out,
                          raised |-> r.raised,
                          free_fields |-> r.fm.free_fields,
                          freed_fields |-> r.fm.freed_fields]>>
    /\ UNCHANGED <<partVars, nshards, poolVars, attVars, downVars, num_pieces,
                   min_shard_volume, launch_spaces>>

NextMatch ==
    \E fields \in Payloads, out \in SeqsUpTo(MatchFields, MaxPayload) :
        FieldMatch_update_free_fields(fields, out)

SpecMatch == InitPartition /\ [][NextMatch]_vars

\* ---- a two-shard run that goes on for ever on one pool.  The histories
\* are not kept, and the matches that every shard has resolved are forgotten:
\* futures, input and output buffers are numbered from the oldest match some
\* shard still has in flight, and calls from the slowest shard's latest call.
\* allocate_field calls a shard may be ahead of the slowest shard
MaxLead == 1
\* fields a shard may have on its pending list (freed_fields)
MaxPending == 2
\* fields the program may hold on a shard
MaxHeld == 3
\* matches a shard may have in flight when it calls allocate_field
MaxInFlight == 2
\* regions a pool may make
MaxRegions == 2

\* the pool that is allocated from: its match_frequency is 1
LivePool == 2

\* the futures of the matches a shard has not resolved
Outstanding(fm, wait) ==
    {fm.matches[i].future : i \in DOMAIN fm.matches}
        \cup {wait[i].match.future : i \in DOMAIN wait}

\* how many of the oldest matches every shard has resolved
Settled(fms, wait, sub) ==
    Min({IF Outstanding(fms[t], wait[t]) = {}
         THEN Len(sub[t])
         ELSE Min(Outstanding(fms[t], wait[t])) - 1 : t \in Shards})

RECURSIVE Renumber(_, _)
Renumber(matches, b) ==
    IF matches = <<>>
    THEN <<>>
    ELSE <<[Head(matches) EXCEPT !.future = @ - b]>>
         \o Renumber(Tail(matches), b)

Drop(sq, b) == SubSeq(sq, b + 1, Len(sq))

\* the end of an allocate_field call as in Settle, on the renumbered state:
\* fms and wait are the managers and the waits after the call, b the number of
\* matches and c the number of calls to forget
LiveStore(s, r, fresh, field, fms, wait, sub, outs, issued, b, c) ==
    /\ field_managers' =
           [t \in Shards |->
               [fms[t] EXCEPT ![LivePool].matches = Renumber(@, b)]]
    /\ waiting' =
           [t \in Shards |->
               IF wait[t] = <<>>
               THEN <<>>
               ELSE <<[pool |-> LivePool,
                       match |-> [wait[t][1].match EXCEPT !.future = @ - b]]>>]
    /\ submitted' = [submitted EXCEPT
           ![LivePool] = [t \in Shards |-> Drop(sub[t], b)]]
    /\ outputs' = [outputs EXCEPT ![LivePool] = Drop(outs, b)]
    /\ calls' = [t \in Shards |-> Drop(issued[t], c)]
    /\ field_space' = IF r.status = "fresh"
                      THEN [field_space EXCEPT ![s] = fresh.fs]
                      ELSE field_space
    /\ next_tree' = IF r.status = "fresh"
                    THEN [next_tree EXCEPT ![s] = fresh.tree]
                    ELSE next_tree
    /\ held' = IF field # NoField
               THEN [held EXCEPT ![s] = @ \cup {field}]
               ELSE held
    /\ UNCHANGED <<allocLog, resolvedLog, lastResolved>>

LiveSettle(s, r, sub, outs, issued) ==
    /\ r.status # "raised"
    /\ r.status = "fresh"
           => \/ Len(r.fm.top_regions) > 0 /\ field_space[s] < MaxFields
              \/ Len(r.fm.top_regions) < MaxRegions
    /\ \E fresh \in {FreshField(r.fm, field_space[s], next_tree[s])} :
       \E field \in {CASE r.status = "fresh" -> fresh.field
                       [] r.status = "ret" -> r.field
                       [] OTHER -> NoField} :
       \E fms \in {[field_managers EXCEPT ![s][LivePool] =
                       IF r.status = "fresh" THEN fresh.fm ELSE r.fm]} :
       \E wait \in {[waiting EXCEPT ![s] =
                       IF r.status = "wait"
                       THEN <<[pool |-> LivePool, match |-> r.match]>>
                       ELSE <<>>]} :
       \E b \in {Settled([t \in Shards |-> fms[t][LivePool]], wait, sub)} :
       \E c \in {Min({Len(issued[t]) : t \in Shards})} :
           LiveStore(s, r, fresh, field, fms, wait, sub, outs, issued, b, c)

\* lines 224-302 on LivePool, run to the return or to the wait for a match
\* future that is not ready
LiveAllocate(s) ==
    /\ waiting[s] = <<>>
    /\ Len(calls[s]) < MaxLead
    /\ Len(field_managers[s][LivePool].matches) < MaxInFlight
    /\ Cardinality(held[s]) < MaxHeld
    /\ \E fm1 \in {Cadence(field_managers[s][LivePool],
                           match_frequency(LivePool),
                           Len(submitted[LivePool][s]) + 1)} :
       \E fired \in {Len(fm1.matches)
                         > Len(field_managers[s][LivePool].matches)} :
       \E sub1 \in {IF fired
                    THEN [submitted EXCEPT ![LivePool][s] =
                             Append(@, field_managers[s][LivePool].freed_fields)]
                    ELSE submitted} :
       \E done \in {fired /\ Completes(sub1, LivePool, Len(sub1[LivePool][s]))} :
       \E out \in (IF done
                   THEN Perms(Agreed(sub1, LivePool, Len(sub1[LivePool][s])))
                   ELSE {<<>>}) :
       \E outs \in {IF done
                    THEN Append(outputs[LivePool], out)
                    ELSE outputs[LivePool]} :
       \E r \in {AfterCadence(fm1, outs)} :
           LiveSettle(s, r, sub1[LivePool], outs,
                      [calls EXCEPT ![s] = Append(@, LivePool)])
    /\ UNCHANGED <<partVars, planVars, nshards, attVars, downVars>>

\* the match future became ready: allocate_field goes on from line 128
LiveResume(s) ==
    /\ waiting[s] # <<>>
    /\ \A i \in DOMAIN waiting[s] :
           /\ waiting[s][i].match.future <= Len(outputs[LivePool])
           /\ \E r \in {ResolveOne(field_managers[s][LivePool],
                                   waiting[s][i].match, outputs[LivePool],
                                   <<>>)} :
                  LiveSettle(s, r, submitted[LivePool], outputs[LivePool],
                             calls)
    /\ UNCHANGED <<partVars, planVars, nshards, attVars, downVars>>

\* Field.__del__ of a program that keeps its pending list short
LiveFree(s, f) ==
    /\ Len(field_managers[s][LivePool].freed_fields) < MaxPending
    /\ ConsumerFree(s, f)

InitLive ==
    /\ nshards = 2
    /\ InitPools
    /\ InitAttachments
    /\ InitTeardown
    /\ InitPlanner

NextLive ==
    \/ \E s \in Shards : LiveAllocate(s)
    \/ \E s \in Shards : LiveResume(s)
    \/ \E s \in Shards : \E f \in held[s] : LiveFree(s, f)

\* future.wait() returns once the future is ready (line 128).  Whether the
\* program calls allocate_field again is the program's choice.
SpecLive ==
    /\ InitLive
    /\ [][NextLive]_vars
    /\ \A s \in Shards : WF_vars(LiveResume(s))

\* ===================================================================
\* Properties
\* ===================================================================
LastOf(sq) == sq[Len(sq)]

\* a call of shard s returned in this step
Returned(s) == Len(allocLog'[s]) > Len(allocLog[s])

\* some field was issued, freed and issued again
Reissued(s) ==
    \E i, j \in DOMAIN allocLog[s] :
        /\ i < j
        /\ allocLog[s][i].field # NoField
        /\ allocLog[s][i].field = allocLog[s][j].field

\* C1: allocate_field never returns a (region, field id) pair that an earlier
\* allocate_field returned and whose consumer has not freed it since: the
\* field a call returns is not owned by a live consumer when it is returned.
C1_NoDoubleIssue ==
    [][\A s \in Shards :
          (Returned(s) /\ LastOf(allocLog'[s]).field # NoField)
              => LastOf(allocLog'[s]).field \notin held[s]]_vars

C1_Witness == \E s \in Active : nshards = 1 /\ Reissued(s)

\* C2: on every shard, a field issued again after its consumer freed it was in
\* the agreed output of a match resolved between the two issues, the match was
\* dispatched after the first issue, and every shard had put the field into
\* its input of that match; a field of the free queue that was issued before
\* got there the same way.
AgreedSince(s, p, f, issue, upto) ==
    \E n \in (issue.resolved + 1)..upto :
        LET m == resolvedLog[s][p][n]
        IN  /\ f \in Range(m.output)
            /\ m.future > issue.dispatched
            /\ \A t \in Active : f \in Range(submitted[p][t][m.future])

C2_ReuseOnlyAfterAgreement ==
    \A s \in Active :
        /\ \A j \in DOMAIN allocLog[s] :
              LET e == allocLog[s][j]
                  earlier == {i \in 1..(j - 1) : allocLog[s][i].field = e.field}
              IN  (e.field # NoField /\ earlier # {})
                    => AgreedSince(s, e.pool, e.field,
                                   allocLog[s][Max(earlier)], e.resolved)
        /\ \A p \in Pools :
              \A f \in Range(field_managers[s][p].free_fields) :
                 LET earlier == {i \in DOMAIN allocLog[s] :
                                    allocLog[s][i].field = f}
                 IN  earlier # {}
                       => AgreedSince(s, p, f, allocLog[s][Max(earlier)],
                                      Len(resolvedLog[s][p]))

C2_Witness ==
    /\ nshards = 2
    /\ \E s \in Active : Reissued(s)

\* C3: after k allocate_field calls on a pool exactly floor(k / N) matches
\* have been dispatched (N = match_frequency) and the counter is k mod N,
\* whatever was freed and whether or not the pending list was empty.
C3_MatchEveryNth ==
    \A s \in Active, p \in Pools :
        LET k == Count(calls[s], p)
        IN  /\ Len(submitted[p][s]) = k \div match_frequency(p)
            /\ field_managers[s][p].match_counter = k % match_frequency(p)

C3_Witness ==
    \E s \in Active :
        /\ Count(calls[s], 1) >= 2
        /\ \E k \in DOMAIN submitted[1][s] : submitted[1][s][k] = <<>>
        /\ \E p \in Pools : \E k \in DOMAIN submitted[p][s] :
              submitted[p][s][k] # <<>>

\* C4: two shards issuing the same allocate_field calls obtain the same
\* (region, field id) from the i-th call, with the same numbers of matches
\* dispatched and resolved at that call, and resolve the same matches with the
\* same outputs in the same order, whenever their consumers free fields.
C4_ShardsAgree ==
    nshards = 2 =>
        /\ \A i \in DOMAIN allocLog[1] \cap DOMAIN allocLog[2] :
              allocLog[1][i] = allocLog[2][i]
        /\ \A p \in Pools :
              \A n \in DOMAIN resolvedLog[1][p] \cap DOMAIN resolvedLog[2][p] :
                 resolvedLog[1][p][n] = resolvedLog[2][p][n]

C4_Witness ==
    /\ nshards = 2
    /\ Len(allocLog[1]) = MaxAllocs
    /\ Len(allocLog[2]) = MaxAllocs
    /\ Reissued(1)
    /\ \E p \in Pools :
          \E k \in DOMAIN submitted[p][1] \cap DOMAIN submitted[p][2] :
             /\ submitted[p][1][k] # submitted[p][2][k]
             /\ Len(submitted[p][1][k]) >= 2
             /\ Len(submitted[p][2][k]) >= 2

\* C5: every field a FieldManager has created is in exactly one place among
\* the free queue, the pending list, the payload of one in-flight match and a
\* consumer.
InFlight(s, p) ==
    (IF waiting[s] # <<>> /\ waiting[s][1].pool = p
     THEN <<waiting[s][1].match>>
     ELSE <<>>) \o field_managers[s][p].matches

Places(s, p, f) ==
    Count(field_managers[s][p].free_fields, f)
    + Count(field_managers[s][p].freed_fields, f)
    + PayloadCount(InFlight(s, p), f)
    + (IF f \in held[s] THEN 1 ELSE 0)

Created(s, p) ==
    ({allocLog[s][i].field : i \in {j \in DOMAIN allocLog[s] :
                                        allocLog[s][j].pool = p}} \ {NoField})
    \cup Range(field_managers[s][p].free_fields)
    \cup Range(field_managers[s][p].freed_fields)
    \cup UNION {Range(InFlight(s, p)[n].fields) : n \in DOMAIN InFlight(s, p)}

C5_ExclusiveOwnership ==
    \A s \in Active, p \in Pools :
        \A f \in Created(s, p) : Places(s, p, f) = 1

C5_Witness ==
    \E s \in Active, p \in Pools :
        /\ field_managers[s][p].free_fields # <<>>
        /\ field_managers[s][p].freed_fields # <<>>
        /\ \E n \in DOMAIN InFlight(s, p) : InFlight(s, p)[n].fields # <<>>
        /\ \E f \in held[s] : PoolOf(s, f) = p

\* C6: resolving a match with a non-empty agreed output appends the agreed
\* fields to the free queue in the output's order and puts every submitted
\* field that is not in the output back on the pending list; with an empty
\* output every submitted field goes back on the pending list and the free
\* queue is unchanged.
C6_Redistribution ==
    \A s \in Active :
        \A i \in DOMAIN lastResolved[s] :
            LET e == lastResolved[s][i]
            IN  IF Len(e.output) > 0
                THEN /\ e.free_after = e.free_before \o e.output
                     /\ e.pending_after = e.pending_before \o
                           SelectSeq(e.fields,
                                     LAMBDA f : f \notin Range(e.output))
                ELSE /\ e.free_after = e.free_before
                     /\ e.pending_after = e.pending_before \o e.fields

C6_Witness ==
    \E s \in Active :
        \E i \in DOMAIN lastResolved[s] :
            LET e == lastResolved[s][i]
            IN  /\ Len(e.output) > 0
                /\ \E f \in Range(e.fields) : f \notin Range(e.output)

\* C7: the matches of a pool are resolved oldest first and each at most once
\* (the resolved futures are 1, 2, ..., r), every dispatched match is either
\* resolved or still in flight in dispatch order, and a call stops resolving
\* at the first resolution that makes the free queue non-empty.
C7_ResolvedOnceInOrder ==
    \A s \in Active :
        /\ \A p \in Pools :
              LET r == Len(resolvedLog[s][p])
              IN  /\ \A n \in 1..r : resolvedLog[s][p][n].future = n
                  /\ \A n \in DOMAIN InFlight(s, p) :
                        InFlight(s, p)[n].future = r + n
                  /\ r + Len(InFlight(s, p)) = Len(submitted[p][s])
        /\ \A i \in 1..(Len(lastResolved[s]) - 1) :
              lastResolved[s][i].free_after = <<>>
        /\ waiting[s] # <<>> =>
              field_managers[s][waiting[s][1].pool].free_fields = <<>>

C7_Witness ==
    \E s \in Active :
        /\ lastResolved[s] # <<>>
        /\ LastOf(lastResolved[s]).free_after # <<>>
        /\ allocLog[s] # <<>>
        /\ field_managers[s][LastOf(allocLog[s]).pool].matches # <<>>

\* ------------------------------------------------------------ attachments
AttachCount(s, key) ==
    Cardinality({i \in DOMAIN attachLog[s] :
                    attachLog[s][i].key = key /\ ~attachLog[s][i].raised})

RemoveCount(s, key) ==
    Cardinality({i \in DOMAIN removeLog[s] :
                    removeLog[s][i].key = key /\ ~removeLog[s][i].raised})

\* C8: attaching the same (base address, byte length) twice gives one registry
\* entry with reference count 2 and two views over the same field; once
\* remove_attachment has also been called twice for the key the entry is gone.
C8_AttachTwiceRemoveTwice ==
    \A s \in Active, key \in Keys :
        /\ (AttachCount(s, key) = 2 /\ RemoveCount(s, key) = 0) =>
              /\ key \in DOMAIN attachments[s]
              /\ attachments[s][key].count = 2
              /\ \A i \in DOMAIN attachLog[s] :
                    attachLog[s][i].key = key
                        => attachLog[s][i].field = attachments[s][key].field
        /\ (AttachCount(s, key) = 2 /\ RemoveCount(s, key) = 2) =>
              key \notin DOMAIN attachments[s]

\* the byte ranges of two keys have an address in common
Meet(k1, k2) ==
    Max({k1[1], k2[1]}) < Min({k1[1] + k1[2], k2[1] + k2[2]})

Attached(s) == Len(attachLog'[s]) > Len(attachLog[s])

\* C9: no two distinct entries of the attachment registry have overlapping
\* address ranges, and an attach of a new key whose range overlaps a
\* registered entry raises and leaves the registry as it was.
C9_NoOverlappingAttachments ==
    /\ [](\A s \in Active :
            \A k1, k2 \in DOMAIN attachments[s] : k1 # k2 => ~Meet(k1, k2))
    /\ [][\A s \in Shards :
            LET e == LastOf(attachLog'[s])
            IN  (/\ Attached(s)
                 /\ e.key \notin DOMAIN attachments[s]
                 /\ \E k \in DOMAIN attachments[s] : Meet(k, e.key))
                    => (e.raised /\ attachments'[s] = attachments[s])]_vars

C9_Witness ==
    \E s \in Active :
        /\ DOMAIN attachments[s] # {}
        /\ attachLog[s] # <<>>
        /\ LastOf(attachLog[s]).raised
        /\ LastOf(attachLog[s]).key \notin DOMAIN attachments[s]

\* C10: an attach that fails with the aliasing error leaves the registry and
\* every field pool as they were before the call and binds no buffer.
C10_FailedAttachCommitsNothing ==
    [][\A s \in Shards :
          (Attached(s) /\ LastOf(attachLog'[s]).raised)
              => UNCHANGED <<attachments, bindings, field_managers,
                             field_space, next_tree>>]_vars

\* C11: a pool never holds two entries for the same (region, field id) across
\* its free queue, its pending list and the payloads of its in-flight matches,
\* also when free_field is called twice for a field with no allocation between.
C11_DoubleFreeDetected ==
    \A s \in Active, p \in Pools :
        \A f \in Created(s, p) :
            Count(field_managers[s][p].free_fields, f)
            + Count(field_managers[s][p].freed_fields, f)
            + PayloadCount(InFlight(s, p), f) <= 1

\* -------------------------------------------------------------- teardown
\* C12: AttachmentManager.destroy returns only with the deferred-detachment
\* queue and the pending-detachment set both empty, whenever deferred detach
\* requests arrive while it drains.
C12_DestroyDrains ==
    pc = "pools" =>
        /\ deferred_detachments = <<>>
        /\ pending_detachments = {}

\* C13: Runtime.destroy releases the field pools only after every context has
\* been destroyed, in reverse registration order, and after the attachment
\* registry is drained: at the step that releases the pools no deferred and no
\* pending detachment exists.
C13_StrictTeardownOrder ==
    [][(released' /\ ~released) =>
          /\ contextLog = Reverse(context_list)
          /\ deferred_detachments = <<>>
          /\ pending_detachments = {}]_vars

\* C14: when Runtime.destroy has completed every FieldManager has been
\* destroyed: none still has a top-level region.
C14_PoolsDestroyed ==
    pc = "done" =>
        \A p \in Pools :
            field_managers[Home][p] = destroy(field_managers[Home][p])

\* ---- C15.  A call of compute_launch_shape that returns (line 518 asserts
\* that a shape with an extent above 1 has no extent 0) returns None exactly
\* when the number of pieces is 1, or every extent is at most 1, or the volume
\* of the array is at most the minimum shard volume; in every other case it
\* returns a launch shape, one positive count for each dimension.
LaunchCalls == {i \in DOMAIN lastCall : lastCall[i].op = "launch" /\ ~lastCall[i].raised}

NonDegenerate(shape) == {dim \in DOMAIN shape : shape[dim] > 1}

C16_OneDimension ==
    \A i \in LaunchCalls :
        LET shape == lastCall[i].shape
            result == lastCall[i].result
        IN  (/\ Cardinality(NonDegenerate(shape)) = 1
             /\ num_pieces > 1
             /\ Volume(shape) > min_shard_volume)
            => /\ result.launch
               /\ \A dim \in DOMAIN shape :
                      result.shape[dim] = IF dim \in NonDegenerate(shape)
                                          THEN Min({shape[dim], num_pieces})
                                          ELSE 1
               /\ (shape = <<1000>> /\ num_pieces = 8) => result.shape = <<8>>
               /\ (shape = <<3>> /\ num_pieces = 8) => result.shape = <<3>>

\* (3,) with 8 pieces: the count is trimmed to the extent
C16_Witness ==
    \E i \in LaunchCalls :
        /\ lastCall[i].shape = <<3>>
        /\ num_pieces = 8
        /\ lastCall[i].result = Launch(<<3>>)

\* ---- C17.  When a shape has exactly two dimensions of extent above 1, say
\* e0 and e1, a volume of at least num_pieces, and the call reaches the
\* two-dimensional case (more than one piece, a volume above the minimum shard
\* volume), the result is (min(p0, e0), min(p1, e1)) in those dimensions and 1
\* elsewhere, where p0 * p1 = num_pieces, both divide num_pieces, and the
\* count of the shorter dimension is one of two candidates: the largest
\* divisor of num_pieces that is at most max(sqrt(num_pieces * nx / ny), 1)
\* and the smallest divisor that is at least that square root (nx <= ny the
\* two extents), whichever leaves the shorter long tile side.  Both
\* candidates exist, so both searches end.  (100,100) with 4 pieces gives
\* (2,2).
C17_TwoDimensions ==
    \A i \in LaunchCalls :
        LET shape == lastCall[i].shape
            result == lastCall[i].result
            d0 == Min(NonDegenerate(shape))
            d1 == Max(NonDegenerate(shape))
            e0 == shape[d0]
            e1 == shape[d1]
            nx == Min({e0, e1})
            ny == Max({e0, e1})
            below == {d \in 1..num_pieces :
                         num_pieces % d = 0 /\ d * d * ny <= num_pieces * nx}
            above == {d \in 1..num_pieces :
                         num_pieces % d = 0 /\ d * d * ny >= num_pieces * nx}
            n1 == Max(below \cup {1})
            n2 == Min(above)
            side1 == Max({nx \div n1, ny \div (num_pieces \div n1)})
            side2 == Max({nx \div n2, ny \div (num_pieces \div n2)})
        IN  (/\ Cardinality(NonDegenerate(shape)) = 2
             /\ Volume(shape) >= num_pieces
             /\ num_pieces > 1
             /\ Volume(shape) > min_shard_volume)
            => /\ result.launch
               /\ above # {}
               /\ \E px \in {n1, n2} :
                      LET py == num_pieces \div px
                          p0 == IF e0 > e1 THEN py ELSE px
                          p1 == IF e0 > e1 THEN px ELSE py
                      IN  /\ Max({nx \div px, ny \div py}) = Min({side1, side2})
                          /\ p0 * p1 = num_pieces
                          /\ num_pieces % p0 = 0
                          /\ num_pieces % p1 = 0
                          /\ \A dim \in DOMAIN shape :
                                 result.shape[dim] =
                                     IF dim = d0 THEN Min({p0, e0})
                                     ELSE IF dim = d1 THEN Min({p1, e1})
                                     ELSE 1
               /\ (shape = <<100, 100>> /\ num_pieces = 4)
                      => result.shape = <<2, 2>>

\* (100,100) with 4 pieces gives (2,2)
C17_Witness ==
    \E i \in LaunchCalls :
        /\ lastCall[i].shape = <<100, 100>>
        /\ num_pieces = 4
        /\ lastCall[i].result = Launch(<<2, 2>>)

\* ---- C18.  use_complete_tiling answers false exactly when the number of
\* tiles of the tiling, the product over the dimensions of the tiles of size
\* tile_shape[i] needed to cover shape[i], is above 256 and above 16 times
\* the number of pieces.
RECURSIVE TilesNeeded(_, _)
TilesNeeded(shape, tile_shape) ==
    IF shape = <<>>
    THEN 1
    ELSE CeilDiv(Head(shape), Head(tile_shape))
         * TilesNeeded(Tail(shape), Tail(tile_shape))

C18_CompleteTiling ==
    \A i \in DOMAIN lastCall :
        lastCall[i].op = "tiling"
        => LET tiles == TilesNeeded(lastCall[i].shape, lastCall[i].tile_shape)
           IN  lastCall[i].answer = ~(tiles > 256 /\ tiles > 16 * num_pieces)

\* ---- C19.  The match frequency of a new FieldManager is the base frequency
\* when the footprint volume * dtype.size is at most max_field_reuse_size;
\* otherwise it is ceil(base / R) with R = ceil(footprint / max_field_reuse_size).
\* It is at least 1 and at most the base frequency.
IsCeil(k, a, b) == (k - 1) * b < a /\ a <= k * b

C19_MatchFrequency ==
    \A i \in DOMAIN lastCall :
        lastCall[i].op = "manager"
        => LET footprint == lastCall[i].shape[1] * lastCall[i].size
               frequency == lastCall[i].frequency
           IN  /\ footprint <= max_field_reuse_size
                      => frequency = max_field_reuse_frequency
               /\ footprint > max_field_reuse_size
                      => \E R \in 1..(footprint \div max_field_reuse_size + 1) :
                             /\ IsCeil(R, footprint, max_field_reuse_size)
                             /\ IsCeil(frequency, max_field_reuse_frequency, R)
               /\ frequency >= 1
               /\ frequency <= max_field_reuse_frequency

\* a footprint of more than base * max_field_reuse_size bytes: a match with
\* every allocation
C19_Witness ==
    \E i \in DOMAIN lastCall :
        /\ lastCall[i].op = "manager"
        /\ lastCall[i].shape[1] * lastCall[i].size
               > max_field_reuse_frequency * max_field_reuse_size
        /\ lastCall[i].frequency = 1

\* ---- C20.  A call of remove_attachment, of detach_array (deferred or not)
\* or of remove_detachment for a key that is not registered at the time of
\* the call raises, and it leaves the attachment map, the map of registered
\* detachments and the set of pending detachments as they were.
C20_UnknownKeyRaises ==
    [][/\ (/\ Len(removeLog'[Home]) > Len(removeLog[Home])
           /\ LastOf(removeLog'[Home]).key \notin DOMAIN attachments[Home])
          => /\ LastOf(removeLog'[Home]).raised
             /\ UNCHANGED <<attachments, registered_detachments,
                            pending_detachments>>
       /\ (/\ Len(detachLog') > Len(detachLog)
           /\ LastOf(detachLog').op \in {"detach", "defer", "unregister"}
           /\ ~LastOf(detachLog').known)
          => /\ LastOf(detachLog').raised
             /\ UNCHANGED <<attachments, registered_detachments,
                            pending_detachments>>]_vars

\* ---- C21.  In any sequence of find_or_create_partition calls on a region a
\* call creates a partition only when no restriction partition of the region
\* has the transform, the extent and the colour bounds of the request; two
\* calls with the same (color_shape, tile_shape, offset, transform) return the
\* same partition; so no two restriction partitions share transform, extent
\* and colour bounds.
C21_OnePartitionPerKey ==
    /\ \A i \in DOMAIN partitionLog :
           LET call == partitionLog[i]
               key == PartitionKey(call.color_shape, call.tile_shape,
                                   call.offset, call.transform)
           IN  call.created
               => \A j \in 1..(call.result - 1) :
                      ~(/\ index_partitions[j].functor = "PartitionByRestriction"
                        /\ index_partitions[j].transform = key.transform
                        /\ index_partitions[j].extent = key.extent
                        /\ index_partitions[j].color_lo = key.color_lo
                        /\ index_partitions[j].color_hi = key.color_hi)
    /\ \A i, j \in DOMAIN partitionLog :
           (/\ partitionLog[i].color_shape = partitionLog[j].color_shape
            /\ partitionLog[i].tile_shape = partitionLog[j].tile_shape
            /\ partitionLog[i].offset = partitionLog[j].offset
            /\ partitionLog[i].transform = partitionLog[j].transform)
           => partitionLog[i].result = partitionLog[j].result
    /\ \A i, j \in DOMAIN index_partitions :
           (/\ i # j
            /\ index_partitions[i].functor = "PartitionByRestriction"
            /\ index_partitions[j].functor = "PartitionByRestriction")
           => <<index_partitions[i].transform, index_partitions[i].extent,
                index_partitions[i].color_lo, index_partitions[i].color_hi>>
              # <<index_partitions[j].transform, index_partitions[j].extent,
                  index_partitions[j].color_lo, index_partitions[j].color_hi>>

\* the same request made twice, after a partition of another functor: the
\* second call creates nothing and returns the partition of the first
C21_Witness ==
    /\ Len(partitionLog) = 2
    /\ partitionLog[1].created
    /\ ~partitionLog[2].created
    /\ partitionLog[2].result = partitionLog[1].result
    /\ partitionLog[1].transform # NoTransform
    /\ \E i \in DOMAIN index_partitions :
           index_partitions[i].functor # "PartitionByRestriction"

\* ---- C22.  compute_tile_shape(shape, launch_shape) is the ceiling of
\* shape[i] / launch[i] in every dimension i: tile[i] * launch[i] >= shape[i]
\* and (tile[i] - 1) * launch[i] < shape[i].
C22_TileCovers ==
    \A i \in DOMAIN lastCall :
        lastCall[i].op = "tile"
        => LET shape == lastCall[i].shape
               launch == lastCall[i].launch_space
               tile == lastCall[i].tile
           IN  /\ Len(tile) = Len(shape)
               /\ \A dim \in DOMAIN shape :
                      /\ tile[dim] * launch[dim] >= shape[dim]
                      /\ (tile[dim] - 1) * launch[dim] < shape[dim]

\* an extent that the launch shape does not divide: (100, 3) over (4, 2)
\* gives tiles of (25, 2), the last one short
C22_Witness ==
    \E i \in DOMAIN lastCall :
        /\ lastCall[i].op = "tile"
        /\ lastCall[i].shape = <<100, 3>>
        /\ lastCall[i].launch_space = <<4, 2>>
        /\ lastCall[i].tile = <<25, 2>>

\* ---- C24.  The construction of the PartitionManager succeeds exactly when
\* every prime factor of the number of pieces is one of 2, 3, 5, 7, 11, and
\* raises otherwise.  After a successful construction the stored factors are
\* in non-increasing order and their product is the number of pieces.
IsPrime(q) == q > 1 /\ \A d \in 2..(q - 1) : q % d # 0

RECURSIVE Product(_)
Product(sq) == IF sq = <<>> THEN 1 ELSE Head(sq) * Product(Tail(sq))

C24_PlannerConstruction ==
    /\ constructed <=> \A q \in 2..num_pieces :
                           (IsPrime(q) /\ num_pieces % q = 0)
                           => q \in {2, 3, 5, 7, 11}
    /\ constructed
       => /\ \A i \in 1..(Len(self_piece_factors) - 1) :
                 self_piece_factors[i] >= self_piece_factors[i + 1]
          /\ Product(self_piece_factors) = num_pieces

\* 30 pieces: the factors are stored as 5, 3, 2
C24_Witness ==
    /\ constructed
    /\ num_pieces = 30
    /\ self_piece_factors = <<5, 3, 2>>

\* ---- C23.  perform_detachments and prune_detachments are idempotent: in
\* every state, a second call right after the first (no other operation, no
\* future becoming ready in between) leaves the deferred queue, the pending
\* set, the attachment map and the number of dispatched detaches as the first
\* call left them; with an empty queue perform_detachments changes nothing,
\* with an empty pending set prune_detachments changes nothing.
Quiet(d) == [d EXCEPT !.raised = FALSE]

C23_DrainIdempotent ==
    /\ \A imm \in Immediate(Registry) :
           LET once == Quiet(PerformDetachments(Registry, imm))
           IN  \A again \in Immediate(once) :
                   Quiet(PerformDetachments(once, again)) = once
    /\ LET once == PruneDetachments(Registry, ready)
       IN  PruneDetachments(once, ready) = once
    /\ deferred_detachments = <<>>
           => \A imm \in Immediate(Registry) :
                  PerformDetachments(Registry, imm) = Registry
    /\ pending_detachments = {}
           => PruneDetachments(Registry, ready) = Registry

\* a deferred detach was replayed by perform_detachments and its future, ready
\* later, was dropped by prune_detachments
C23_Witness ==
    /\ \E i, j \in DOMAIN detachLog :
           /\ i < j
           /\ detachLog[i].op = "perform" /\ detachLog[i].known
           /\ ~detachLog[i].raised
           /\ detachLog[j].op = "prune" /\ detachLog[j].known
    /\ deferred_detachments = <<>>
    /\ pending_detachments = {}

\* ---- C25.  allocate_field serves a request in strict priority order.  A
\* call that finds the free queue non-empty (the cadence step leaves it as it
\* is) returns its head and takes it off the queue.  A call returns a fresh
\* field (a new field id or a new region) only when the free queue was empty
\* and every in-flight match has been resolved without yielding a field: the
\* queue of matches is empty when a fresh field is returned.  A new region is
\* made only for a fresh field, and only when the pool has no region or the
\* field space has no slot left.
C25_PriorityOrder ==
    [][\A s \in Active :
           Returned(s) =>
               LET e == LastOf(allocLog'[s])
                   before == field_managers[s][e.pool]
                   after == field_managers'[s][e.pool]
                   grown == Len(after.top_regions) > Len(before.top_regions)
               IN  /\ (waiting[s] = <<>> /\ before.free_fields # <<>>)
                          => /\ ~e.fresh
                             /\ e.field = Head(before.free_fields)
                             /\ after.free_fields = Tail(before.free_fields)
                   /\ e.fresh
                          => /\ before.free_fields = <<>>
                             /\ after.matches = <<>>
                             /\ \A i \in DOMAIN lastResolved'[s] :
                                    lastResolved'[s][i].free_after = <<>>
                   /\ grown
                          => /\ e.fresh
                             /\ \/ before.top_regions = <<>>
                                \/ field_space[s] >= MaxFields]_vars

\* a call made a second region for its pool: the queue was empty, a match was
\* resolved on the way and gave nothing, the field space was full
C25_Witness ==
    \E s \in Active :
        /\ allocLog[s] # <<>>
        /\ LastOf(allocLog[s]).fresh
        /\ Len(field_managers[s][LastOf(allocLog[s]).pool].top_regions) = 2
        /\ lastResolved[s] # <<>>

\* ---- C26.  A match result with an entry that is none of the fields the
\* shard submitted is not fatal: update_free_fields returns without raising,
\* and every submitted field that is not in the result is on the pending list
\* (freed_fields) afterwards.
C26_ForeignResultNotFatal ==
    \A i \in DOMAIN lastCall :
        (/\ lastCall[i].op = "match"
         /\ \E idx \in DOMAIN lastCall[i].output :
                lastCall[i].output[idx] \notin Range(lastCall[i].fields))
        => /\ ~lastCall[i].raised
           /\ \A f \in Range(lastCall[i].fields) :
                  f \notin Range(lastCall[i].output)
                  => f \in Range(lastCall[i].freed_fields)

\* the dimension the rule of C27 gives a factor to: the last one when it has
\* strictly the most left and either keeps 32 per piece or is the only one
\* that can take the factor, else the first of the others with the most left
RuleTarget(remaining, factor) ==
    LET last == Len(remaining)
        others == 1 .. (last - 1)
    IN  IF /\ \A d \in others : remaining[last] > remaining[d]
           /\ \/ remaining[last] >= 32 * factor
              \/ \A d \in others : remaining[d] < factor
        THEN last
        ELSE Min({d \in others :
                     \A e \in others : remaining[e] <= remaining[d]})

RECURSIVE RuleSpread(_, _, _)
RuleSpread(extents, counts, factors) ==
    IF factors = <<>>
    THEN counts
    ELSE LET remaining == Remaining(extents, counts)
             target == RuleTarget(remaining, Head(factors))
         IN  RuleSpread(extents, [counts EXCEPT ![target] = @ * Head(factors)],
                        Tail(factors))

\* launch calls that returned a shape for three or more dimensions above 1
SpreadCalls ==
    {i \in LaunchCalls : /\ Cardinality(NonDegenerate(lastCall[i].shape)) >= 3
                         /\ lastCall[i].result.launch}

\* ---- C27.  With three or more dimensions of extent above 1, every prime
\* factor of the shard count is multiplied into exactly one dimension, so the
\* piece counts multiply to the shard count; the factors are placed in stored
\* order, each on the first dimension with the most left per piece, and on the
\* last dimension only when it has strictly the most left and either keeps at
\* least 32 per piece or no other dimension has as much as the factor left.
C27_FactorsSpread ==
    \A i \in SpreadCalls :
        LET shape == lastCall[i].shape
            temp_dims == TempDims(shape, 1)
            counts == Gather(lastCall[i].result.shape, temp_dims)
        IN  /\ counts = RuleSpread(Gather(shape, temp_dims),
                                   Ones(Len(temp_dims)), self_piece_factors)
            /\ Product(lastCall[i].result.shape) = num_pieces

\* factors went both to the last dimension and to an earlier one
C27_Witness ==
    \E i \in SpreadCalls :
        LET r == lastCall[i].result.shape
        IN  /\ r[Len(r)] > 1
            /\ \E d \in 1 .. (Len(r) - 1) : r[d] > 1
            /\ \E d \in DOMAIN r : lastCall[i].shape[d] = 1

\* ---- C28.  The cache of launch shapes is written once per shape: an entry
\* never changes or disappears, a call for a shape that has an entry returns
\* the entry, and a returned launch shape has as many dimensions as the array
\* shape, with piece count 1 wherever the extent is 1.
C28_CacheWriteOnce ==
    [][/\ \A shape \in DOMAIN launch_spaces :
              /\ shape \in DOMAIN launch_spaces'
              /\ launch_spaces'[shape] = launch_spaces[shape]
       /\ \A i \in DOMAIN lastCall' :
              (lastCall'[i].op = "launch" /\ ~lastCall'[i].raised)
              => LET shape == lastCall'[i].shape
                     result == lastCall'[i].result
                 IN  /\ shape \in DOMAIN launch_spaces
                            => /\ lastCall'[i].cached
                               /\ result = launch_spaces[shape]
                     /\ result.launch
                            => /\ Len(result.shape) = Len(shape)
                               /\ \A d \in DOMAIN shape :
                                      shape[d] = 1 => result.shape[d] = 1]_vars

\* a call answered from the cache with a launch shape for an array whose
\* first extent is 1
C28_Witness ==
    \E i \in LaunchCalls :
        /\ lastCall[i].cached
        /\ lastCall[i].result.launch
        /\ lastCall[i].shape[1] = 1
        /\ launch_spaces[lastCall[i].shape] = lastCall[i].result

\* ---- C29.  The piece counts of a returned launch shape never multiply to
\* more than the shard count.
C29_AtMostShardCount ==
    \A i \in LaunchCalls :
        lastCall[i].result.launch
        => Product(lastCall[i].result.shape) <= num_pieces

\* a launch shape of fewer pieces than shards, trimmed in two dimensions
C29_Witness ==
    \E i \in LaunchCalls :
        /\ lastCall[i].result.launch
        /\ Cardinality(NonDegenerate(lastCall[i].shape)) = 2
        /\ Volume(lastCall[i].shape) >= num_pieces
        /\ Product(lastCall[i].result.shape) < num_pieces
        /\ Product(lastCall[i].result.shape) > 1

\* ---- C30.  No piece count of a returned launch shape is larger than the
\* extent of its dimension.
C30_WithinExtents ==
    \A i \in LaunchCalls :
        lastCall[i].result.launch
        => \A d \in DOMAIN lastCall[i].shape :
               lastCall[i].result.shape[d] <= lastCall[i].shape[d]

\* the fields a run of SpecLive can make
LiveFields == {<<tree, fid>> : tree \in 1 .. MaxRegions, fid \in 1 .. MaxFields}

\* f was freed on shard s and is not agreed yet: it is on the pending list or
\* in the payload of a match in flight
PendingOn(s, f) ==
    LET fm == field_managers[s][LivePool]
    IN  \/ f \in Range(fm.freed_fields)
        \/ \E i \in DOMAIN fm.matches : f \in Range(fm.matches[i].fields)
        \/ \E i \in DOMAIN waiting[s] : f \in Range(waiting[s][i].match.fields)

\* f is on the free queue of shard s, or was issued again from it
ReclaimedOn(s, f) ==
    \/ f \in Range(field_managers[s][LivePool].free_fields)
    \/ f \in held[s]

\* ---- C31.  Reclamation is live: if the shards keep calling allocate_field
\* on the pool for ever, a field that every shard has freed eventually
\* reaches the free queue, in whatever order the shards freed it and whatever
\* matches were in flight.
C31_ReclamationLive ==
    (\A s \in Shards : []<><<LiveAllocate(s)>>_vars)
        => \A f \in LiveFields :
               (\A s \in Shards : PendingOn(s, f))
                   ~> (\E s \in Shards : ReclaimedOn(s, f))

====
